---- MODULE Spec2Model ----
(***************************************************************************)
(* State-machine model of the owner-operator ledger in src/src/App.tsx     *)
(* (the second App component of the file, lines 788-2740).                 *)
(*                                                                         *)
(* Units.  Money is kept in integer cents and prices in cents per gallon,  *)
(* so that the cent rounding of the code (Math.round(x * 100) / 100) is an *)
(* integer operation.  Quotients the code leaves unrounded (rates per      *)
(* mile, fuel cost before rounding) are exact rationals <<num, den>> with  *)
(* den > 0, in lowest terms.                                               *)
(* Strings the code compares, slices or parses (dates, due dates) are      *)
(* sequences of UTF-16 code units; identifiers are sequences of tokens, so *)
(* that `fuel-${id}` is <<"fuel-">> \o id.                                 *)
(***************************************************************************)
EXTENDS Integers, Sequences, FiniteSets, TLC

\* ------------------------------------------------------------------ bounds
MaxOps == 1

MaxRows == 1

MaxDebts == 3

\* ------------------------------------------------------ integer arithmetic
Abs(n) == IF n < 0 THEN -n ELSE n

Max(a, b) == IF a >= b THEN a ELSE b

Min(a, b) == IF a <= b THEN a ELSE b

RECURSIVE GCD(_, _)
GCD(a, b) == IF b = 0 THEN Abs(a) ELSE GCD(Abs(b), Abs(a) % Abs(b))

\* floor of n / d for d > 0 (\div of TLA+ is the floor)
FloorDiv(n, d) == n \div d

\* ceil(x * y / n) for x, y >= 0, n > 0, by long multiplication over the
\* binary digits of y, so that no intermediate product leaves 32 bits.
\* MulDivMod(x, y, n) = <<(x * y) \div n, (x * y) % n>>.
MulDivStep(hi, x, bit, n) ==
  <<hi[1] * 2 + (x \div n) * bit + ((hi[2] * 2 + (x % n) * bit) \div n),
    (hi[2] * 2 + (x % n) * bit) % n>>

RECURSIVE MulDivMod(_, _, _)
MulDivMod(x, y, n) ==
  IF y = 0 THEN <<0, 0>>
  ELSE CHOOSE qr \in {MulDivStep(hi, x, y % 2, n) : hi \in {MulDivMod(x, y \div 2, n)}} : TRUE

CeilMulDiv(x, y, n) ==
  LET qr == MulDivMod(x, y, n) IN IF qr[2] = 0 THEN qr[1] ELSE qr[1] + 1

\* ----------------------------------------------------------------- rationals
Rat(n, d) ==
  LET g == GCD(n, d)
      s == IF d < 0 THEN -1 ELSE 1
  IN <<(s * n) \div g, (s * d) \div g>>

RInt(n) == <<n, 1>>

RAdd(a, b) ==
  LET g == GCD(a[2], b[2])
      fa == b[2] \div g
      fb == a[2] \div g
  IN Rat(a[1] * fa + b[1] * fb, a[2] * fa)

RNeg(a) == <<-a[1], a[2]>>

RSub(a, b) == RAdd(a, RNeg(b))

RMul(a, b) ==
  LET g1 == GCD(a[1], b[2])
      g2 == GCD(b[1], a[2])
      h1 == IF g1 = 0 THEN 1 ELSE g1
      h2 == IF g2 = 0 THEN 1 ELSE g2
  IN Rat((a[1] \div h1) * (b[1] \div h2), (a[2] \div h2) * (b[2] \div h1))

RSign(a) == IF a[1] > 0 THEN 1 ELSE IF a[1] < 0 THEN -1 ELSE 0

RLe(a, b) == RSign(RSub(a, b)) <= 0

RMax(a, b) == IF RLe(b, a) THEN a ELSE b

RMin(a, b) == IF RLe(a, b) THEN a ELSE b

\* Math.floor(a / b) for a >= 0 and b > 0
RFloorQuot(a, b) ==
  LET g1 == GCD(a[1], b[1])
      g2 == GCD(a[2], b[2])
      h1 == IF g1 = 0 THEN 1 ELSE g1
  IN MulDivMod(a[1] \div h1, b[2] \div g2, (b[1] \div h1) * (a[2] \div g2))[1]

\* Math.ceil(a / b) for a >= 0 and b > 0
RCeilQuot(a, b) ==
  LET g1 == GCD(a[1], b[1])
      g2 == GCD(a[2], b[2])
      h1 == IF g1 = 0 THEN 1 ELSE g1
      x  == a[1] \div h1
      n1 == b[1] \div h1
      y  == b[2] \div g2
      n2 == a[2] \div g2
  IN IF x = 0 THEN 0
     ELSE \* ceil(x * y / (n1 * n2)); n1 * n2 stays small after reduction
          CeilMulDiv(x, y, n1 * n2)

\* Math.round(x): nearest integer, halves towards +infinity
MathRound(a) == FloorDiv(2 * a[1] + a[2], 2 * a[2])

\* ------------------------------------------------------------------ strings
Dash == 45

Zero == 48

RECURSIVE Str(_)
\* String(n) for an integer n >= 0
Str(n) == IF n < 10 THEN <<Zero + n>> ELSE Str(n \div 10) \o <<Zero + (n % 10)>>

\* s.padStart(2, '0')
padStart2(s) == IF Len(s) < 2 THEN <<Zero>> \o s ELSE s

RECURSIVE StrGT(_, _)
\* a > b on strings: code-unit lexicographic order
StrGT(a, b) ==
  IF a = <<>> THEN FALSE
  ELSE IF b = <<>> THEN TRUE
  ELSE IF Head(a) # Head(b) THEN Head(a) > Head(b)
  ELSE StrGT(Tail(a), Tail(b))

\* s.substring(0, n)
substring0(s, n) == SubSeq(s, 1, Min(n, Len(s)))

\* s.startsWith(p)
startsWith(s, p) == Len(p) <= Len(s) /\ SubSeq(s, 1, Len(p)) = p

IsDigits(s) == s # <<>> /\ \A k \in DOMAIN s : s[k] >= Zero /\ s[k] <= Zero + 9

RECURSIVE DigitsValue(_)
DigitsValue(s) ==
  IF s = <<>> THEN 0 ELSE DigitsValue(SubSeq(s, 1, Len(s) - 1)) * 10 + (s[Len(s)] - Zero)

\* Number(s) for a string s: <<v>> for a decimal numeral, <<0>> for the empty
\* string, <<>> (NaN) for anything else
NumberOf(s) == IF s = <<>> THEN <<0>> ELSE IF IsDigits(s) THEN <<DigitsValue(s)>> ELSE <<>>

\* -------------------------------------------------------------------- dates
\* A Date value is a civil day [y, m, d] of the local time zone.
Day(y, m, d) == [y |-> y, m |-> m, d |-> d]

\* day number of a civil day (days since 1970-01-01)
DayNum(dt) ==
  LET y   == IF dt.m <= 2 THEN dt.y - 1 ELSE dt.y
      era == y \div 400
      yoe == y - era * 400
      mp  == (dt.m + 9) % 12
      doy == (153 * mp + 2) \div 5 + dt.d - 1
      doe == yoe * 365 + yoe \div 4 - yoe \div 100 + doy
  IN era * 146097 + doe - 719468

IsLeap(y) == (y % 4 = 0 /\ y % 100 # 0) \/ y % 400 = 0

DaysInMonth(y, m) ==
  IF m = 2 THEN (IF IsLeap(y) THEN 29 ELSE 28)
  ELSE IF m \in {4, 6, 9, 11} THEN 30 ELSE 31

NextDay(dt) ==
  IF dt.d < DaysInMonth(dt.y, dt.m) THEN Day(dt.y, dt.m, dt.d + 1)
  ELSE IF dt.m < 12 THEN Day(dt.y, dt.m + 1, 1)
  ELSE Day(dt.y + 1, 1, 1)

\* `${getFullYear()}-${String(getMonth() + 1).padStart(2, '0')}-${String(getDate()).padStart(2, '0')}`
todayStr(now) ==
  Str(now.y) \o <<Dash>> \o padStart2(Str(now.m)) \o <<Dash>> \o padStart2(Str(now.d))

\* the value of an <input type="date"> and of toISOString().split('T')[0]:
\* yyyy-mm-dd
IsoDate(dt) ==
  Str(dt.y) \o <<Dash>> \o padStart2(Str(dt.m)) \o <<Dash>> \o padStart2(Str(dt.d))

\* the civil day a yyyy-mm-dd string denotes
ParseIso(s) ==
  Day((s[1] - Zero) * 1000 + (s[2] - Zero) * 100 + (s[3] - Zero) * 10 + (s[4] - Zero),
      (s[6] - Zero) * 10 + (s[7] - Zero),
      (s[9] - Zero) * 10 + (s[10] - Zero))

\* new Date(s).getTime() for a yyyy-mm-dd string, in days
getTime(s) == DayNum(ParseIso(s))

\* ---------------------------------------------------------------- constants
\* cents per mile (0.65 dollars)
COMPANY_DRIVER_RATE == 65

\* dollars
VEHICLE_VALUE == 85000

THREE_YEAR_MILES == 360000

\* cents per mile: VEHICLE_VALUE / THREE_YEAR_MILES dollars
CASCADIA_DEPR_RATE == Rat(VEHICLE_VALUE * 100, THREE_YEAR_MILES)

\* cents per mile (0.15 dollars)
CASCADIA_MAINT_RESERVE == 15

MPG == 7

\* 0.273
TOTAL_TAX_RATE == Rat(273, 1000)

\* monthly payment of the payoff plan, in cents (the literal 1000 dollars)
PayoffBudget == 100000

UNDEFINED == "undefined"

\* !s for an optional string
Falsy(s) == s = UNDEFINED \/ s = ""

\* cents per gallon
REGIONAL_DIESEL ==
  [r \in {"UT", "TX", "OH", "NV", "CA", "PA", "NM", "AZ", "CO", "OK", "AR", "TN", "IN", "WV", "AVG"} |->
     CASE r = "UT" -> 380 [] r = "TX" -> 340 [] r = "OH" -> 360 [] r = "NV" -> 410
       [] r = "CA" -> 520 [] r = "PA" -> 405 [] r = "NM" -> 365 [] r = "AZ" -> 375
       [] r = "CO" -> 370 [] r = "OK" -> 335 [] r = "AR" -> 340 [] r = "TN" -> 345
       [] r = "IN" -> 355 [] r = "WV" -> 370 [] r = "AVG" -> 385]

ROUTE_MIDPOINTS ==
  [k \in {"UT-TX", "TX-OH", "OH-NV", "NV-CA", "CA-TX", "TX-TX", "TX-PA", "TX-NV", "OH-TX", "PA-TX", "NV-TX"} |->
     CASE k = "UT-TX" -> "NM" [] k = "TX-OH" -> "TN" [] k = "OH-NV" -> "CO" [] k = "NV-CA" -> "NV"
       [] k = "CA-TX" -> "AZ" [] k = "TX-TX" -> "TX" [] k = "TX-PA" -> "TN" [] k = "TX-NV" -> "NM"
       [] k = "OH-TX" -> "TN" [] k = "PA-TX" -> "TN" [] k = "NV-TX" -> "NM"]

\* a price lookup that gives 0 for a region the table does not have
PriceOrZero(r) == IF r \in DOMAIN REGIONAL_DIESEL THEN REGIONAL_DIESEL[r] ELSE 0

\* REGIONAL_DIESEL[r]?.price ?? REGIONAL_DIESEL['AVG'].price
PriceOf(r) == IF r \in DOMAIN REGIONAL_DIESEL THEN REGIONAL_DIESEL[r] ELSE REGIONAL_DIESEL["AVG"]

\* a fuel cost that averages the origin and destination prices only
fuelCostWithoutMidpoint(miles, originRegion, destRegion) ==
  IF Falsy(destRegion) THEN RMul(Rat(miles, MPG), RInt(PriceOf(originRegion)))
  ELSE RMul(Rat(miles, MPG), Rat(PriceOf(originRegion) + PriceOf(destRegion), 2))

\* fuel cost in cents, unrounded
fuelCostForMiles(miles, originRegion, destRegion) ==
  LET oPrice == PriceOf(originRegion)
  IN IF Falsy(destRegion) THEN RMul(Rat(miles, MPG), RInt(oPrice))
     ELSE LET dPrice == PriceOf(destRegion)
              midKey == originRegion \o "-" \o destRegion
              midRegion == IF midKey \in DOMAIN ROUTE_MIDPOINTS THEN ROUTE_MIDPOINTS[midKey] ELSE "AVG"
              mPrice == PriceOf(midRegion)
              avgPrice == Rat(oPrice + mPrice + dPrice, 3)
          IN RMul(Rat(miles, MPG), avgPrice)

\* --------------------------------------------------------------- built-in data
Trip(id, date, distance, payout, fuelRegion, destFuelRegion, deadheadMiles) ==
  [id |-> id, date |-> date, distance |-> distance, ratePerMile |-> Rat(payout, distance),
   totalPayout |-> payout, fuelRegion |-> fuelRegion, destFuelRegion |-> destFuelRegion,
   deadheadMiles |-> deadheadMiles]

INITIAL_TRIPS ==
  << Trip(<<"t1">>, IsoDate(Day(2026, 2, 9)), 1330, 270000, "UT", "TX", 0),
     Trip(<<"t2">>, IsoDate(Day(2026, 2, 11)), 1200, 220000, "TX", "OH", 70),
     Trip(<<"t3">>, IsoDate(Day(2026, 2, 13)), 2000, 400000, "OH", "NV", 20),
     Trip(<<"t4">>, IsoDate(Day(2026, 2, 16)), 275, 70000, "NV", "CA", 0),
     Trip(<<"t5">>, IsoDate(Day(2026, 2, 17)), 1435, 305000, "CA", "TX", 5),
     Trip(<<"t6">>, IsoDate(Day(2026, 2, 20)), 250, 70000, "TX", "TX", 15),
     Trip(<<"t7">>, IsoDate(Day(2026, 2, 27)), 1620, 340000, "TX", "PA", 35) >>

Expense(id, date, category, amount) ==
  [id |-> id, date |-> date, category |-> category, amount |-> amount]

\* trip.fuelRegion ?? 'AVG'
OrAvg(r) == IF r = UNDEFINED THEN "AVG" ELSE r

\* the fuel and deadhead expenses buildExpenses pushes for one trip
TripExpenses(trip) ==
  << Expense(<<"fuel-">> \o trip.id, trip.date, "Fuel",
             MathRound(fuelCostForMiles(trip.distance, OrAvg(trip.fuelRegion), trip.destFuelRegion))) >>
  \o (IF trip.deadheadMiles > 0
      THEN << Expense(<<"dh-">> \o trip.id, trip.date, "Deadhead",
                      MathRound(fuelCostForMiles(trip.deadheadMiles, OrAvg(trip.fuelRegion), UNDEFINED))) >>
      ELSE << >>)

RECURSIVE FlatMapTripExpenses(_)
FlatMapTripExpenses(trips) ==
  IF trips = << >> THEN << >> ELSE TripExpenses(Head(trips)) \o FlatMapTripExpenses(Tail(trips))

RECURSIVE SumPayout(_)
SumPayout(trips) == IF trips = << >> THEN 0 ELSE Head(trips).totalPayout + SumPayout(Tail(trips))

buildExpenses ==
  LET totalRevenue == SumPayout(INITIAL_TRIPS)
      tripDays == IF Len(INITIAL_TRIPS) > 0
                  THEN Max(1, getTime(INITIAL_TRIPS[Len(INITIAL_TRIPS)].date) - getTime(INITIAL_TRIPS[1].date) + 1)
                  ELSE 30
      feb1 == IsoDate(Day(2026, 2, 1))
  IN FlatMapTripExpenses(INITIAL_TRIPS) \o
     << Expense(<<"ins-feb">>, feb1, "Insurance", 240000),
        Expense(<<"reg-feb">>, feb1, "Registration", MathRound(Rat(160000, 12))),
        Expense(<<"toll-feb">>, feb1, "Tolls", 25000),
        Expense(<<"disp-feb">>, feb1, "Dispatch", MathRound(Rat(totalRevenue, 10))),
        Expense(<<"lock-feb">>, feb1, "Lock Box", 10000),
        Expense(<<"trlr-feb">>, feb1, "Trailer", 60000),
        Expense(<<"food-feb">>, feb1, "Food", tripDays * 2000) >>

INITIAL_EXPENSES == buildExpenses

Personal(id, category, monthlyAmount) ==
  [id |-> id, category |-> category, monthlyAmount |-> monthlyAmount]

INITIAL_PERSONAL ==
  << Personal("p1", "Housing", 200000), Personal("p2", "Utilities", 30000),
     Personal("p3", "Family", 100000), Personal("p4", "Phone", 10000),
     Personal("p5", "Food", 120000), Personal("p6", "Clothing", 20000),
     Personal("p7", "Debt", 100000) >>

Debt(id, to, amount, dueDate) == [id |-> id, to |-> to, amount |-> amount, dueDate |-> dueDate]

INITIAL_DEBTS ==
  << Debt("d1", "Cousin", 350000, Str(2024)),
     Debt("d2", "Person in Afghanistan", 400000, Str(2023)),
     Debt("d3", "Fellow Truck Driver", 400000, << >>),
     Debt("d4", "Person #4", 100000, << >>),
     Debt("d5", "Person #5", 200000, << >>),
     Debt("d6", "Credit Card", 100000, << >>) >>

\* -------------------------------------------------------------------- state
VARIABLES
  incomes,            \* useState<Income[]>
  expenses,           \* useState<Expense[]>
  personalExpenses,   \* useState<PersonalExpense[]>
  debts,              \* useState<Debt[]>
  today,              \* the civil day new Date() returns now
  completedIncomes,   \* useMemo(..., [incomes])
  pendingIncomes,     \* useMemo(..., [incomes])
  pendingTripIds,     \* useMemo(..., [incomes])
  completedExpenses,  \* useMemo(..., [expenses, pendingTripIds])
  memoNow,            \* the day isFutureTrip read when the [incomes] memos last ran
  uuidCount,          \* number of identifiers uuidv4() / Date.now() has handed out
  ops,                \* number of handler invocations so far
  fuelCall,           \* << >>, or <<trip>> for the trip fuelCostForMiles is called for
  fuelCost,           \* << >>, or the <<n, d>> that call returned, in cents
  shown,              \* << >>, or <<r>> for the derived figures last computed for display
  storage,            \* localStorage: the items rl_version, rl_incomes, rl_expenses, rl_personal, rl_debts
  boot                \* start-up position: the key of the next loadState call, "render", or "mounted"

vars == <<incomes, expenses, personalExpenses, debts, today, completedIncomes,
          pendingIncomes, pendingTripIds, completedExpenses, memoNow, uuidCount, ops,
          fuelCall, fuelCost, shown, storage, boot>>

\* what no handler writes: the fuel cost call, the figures on display, the
\* start-up position and the stored items (a handler's new collection is
\* stored by the persistence effect of its render, see Current)
probeVars == <<fuelCall, fuelCost, shown, storage, boot>>

memoVars == <<completedIncomes, pendingIncomes, pendingTripIds, completedExpenses, memoNow>>

\* the days the clock is sampled at, in chronological order
CalendarDays == << Day(2026, 2, 8), Day(2026, 2, 11), Day(2026, 3, 1), Day(2026, 10, 5) >>

CalendarSet == {CalendarDays[k] : k \in DOMAIN CalendarDays}

\* ------------------------------------------------------------ derived values
\* a trip dated today treated as future
isFutureTripOrToday(date, now) == date = todayStr(now) \/ StrGT(date, todayStr(now))

isFutureTrip(date, now) == StrGT(date, todayStr(now))

\* incomes.filter(i => !isFutureTrip(i.date))
filterCompleted(incs, now) == SelectSeq(incs, LAMBDA i : ~isFutureTrip(i.date, now))

\* incomes.filter(i => isFutureTrip(i.date))
filterPending(incs, now) == SelectSeq(incs, LAMBDA i : isFutureTrip(i.date, now))

computePendingTripIds(incs, now) ==
  {incs[k].id : k \in {j \in DOMAIN incs : isFutureTrip(incs[j].date, now)}}

\* only the fuel- prefix recognised
MatchesFuelOnly(id) == Len(id) > 1 /\ Head(id) = "fuel-"

\* e.id.match(/^(?:fuel|dh)-(.+)$/)
MatchesTripExpense(id) == Len(id) > 1 /\ Head(id) \in {"fuel-", "dh-"}

filterCompletedExpenses(exps, pendIds) ==
  SelectSeq(exps, LAMBDA e : IF MatchesTripExpense(e.id) THEN Tail(e.id) \notin pendIds ELSE TRUE)

RECURSIVE SumAmount(_)
SumAmount(exps) == IF exps = << >> THEN 0 ELSE Head(exps).amount + SumAmount(Tail(exps))

RECURSIVE SumDistance(_)
SumDistance(trips) == IF trips = << >> THEN 0 ELSE Head(trips).distance + SumDistance(Tail(trips))

RECURSIVE SumDeadhead(_)
SumDeadhead(trips) == IF trips = << >> THEN 0 ELSE Head(trips).deadheadMiles + SumDeadhead(Tail(trips))

RECURSIVE SumMonthly(_)
SumMonthly(ps) == IF ps = << >> THEN 0 ELSE Head(ps).monthlyAmount + SumMonthly(Tail(ps))

\* The number-valued memos are recomputed exactly when the memo they are
\* derived from is, so they are functions of the memoised collections.
totalPersonalMonthly == SumMonthly(personalExpenses)

totalIncome == SumPayout(completedIncomes)

totalExpenses == SumAmount(completedExpenses)

\* miles summed over every trip, the pending ones included
totalMilesWithPending == SumDistance(incomes)

totalMiles == SumDistance(completedIncomes)

totalDeadhead == SumDeadhead(completedIncomes)

pendingRevenue == SumPayout(pendingIncomes)

totalDebt == SumAmount(debts)

\* ------------------------------------------------------------------ sorting
\* arr.sort((a, b) => new Date(b.date).getTime() - new Date(a.date).getTime()):
\* stable, latest date first
\* (the comparator is a consistent one on valid dates, so the result is the
\* one stable ordering: element k goes after every element with a later
\* date and after every earlier element with the same date)
\* The key and rank tables are bound by a set constructor so that each is
\* computed once per sort.
DateKeys(arr) == [k \in DOMAIN arr |-> getTime(arr[k].date)]

DescRanks(arr, key) ==
  [k \in DOMAIN arr |->
     1 + Cardinality({j \in DOMAIN arr : key[j] > key[k] \/ (key[j] = key[k] /\ j < k)})]

PlaceByRank(arr, rank) == [n \in DOMAIN arr |-> arr[CHOOSE k \in DOMAIN arr : rank[k] = n]]

SortByDateDesc(arr) ==
  CHOOSE sorted \in UNION { { PlaceByRank(arr, rank) : rank \in {DescRanks(arr, key)} } :
                             key \in {DateKeys(arr)} } : TRUE

\* ------------------------------------------------------------------ renders
\* the render after setIncomes (and possibly setExpenses): every memo whose
\* dependency list contains incomes, or a memo derived from it, is recomputed
RenderIncomes(newIncomes, newExpenses) ==
  /\ completedIncomes' = filterCompleted(newIncomes, today)
  /\ pendingIncomes' = filterPending(newIncomes, today)
  /\ pendingTripIds' = computePendingTripIds(newIncomes, today)
  /\ completedExpenses' = filterCompletedExpenses(newExpenses, computePendingTripIds(newIncomes, today))
  /\ memoNow' = today

\* the render after setExpenses alone: pendingTripIds is served from the memo
RenderExpenses(newExpenses) ==
  /\ completedExpenses' = filterCompletedExpenses(newExpenses, pendingTripIds)
  /\ UNCHANGED <<completedIncomes, pendingIncomes, pendingTripIds, memoNow>>

\* uuidv4(): the n-th fresh identifier
Uuid(n) == <<"u" \o ToString(n)>>

\* --------------------------------------------------------------------- Init
\* first render with the built-in collections (loadState's fallback)
\* ------------------------------------------------------------ localStorage
\* An item of localStorage: absent (getItem gives null), a text that is not
\* JSON (the empty string, or text JSON.parse throws on, value being its code
\* units), the JSON text of a value, or the JSON text of the collection as it
\* is now.
Absent == [kind |-> "absent", value |-> << >>]

TextItem(chars) == [kind |-> "text", value |-> chars]

JsonItem(v) == [kind |-> "json", value |-> v]

\* useEffect(() => localStorage.setItem(key, JSON.stringify(collection)), [collection]):
\* after the first render the item of a collection is the text of the
\* collection of the latest render
Current == [kind |-> "current", value |-> << >>]

DATA_VERSION == 5

\* localStorage once the app has mounted with a current version
MountedStorage ==
  [rl_version |-> TextItem(Str(DATA_VERSION)), rl_incomes |-> Current, rl_expenses |-> Current,
   rl_personal |-> Current, rl_debts |-> Current]

\* Number(localStorage.getItem('rl_version') || '0')
savedVer(store) ==
  NumberOf(IF store.rl_version.kind = "absent" \/ store.rl_version.value = << >>
           THEN Str(0) ELSE store.rl_version.value)

\* a loadState that, on an old version, removes the item of its own key only
loadStateClearingOwnKey(store, key, fallback) ==
  IF savedVer(store) # << >> /\ savedVer(store)[1] < DATA_VERSION
  THEN [storage |-> [[store EXCEPT ![key] = Absent] EXCEPT !.rl_version = TextItem(Str(DATA_VERSION))],
        value |-> fallback]
  ELSE [storage |-> store,
        value |-> IF store[key].kind = "json" THEN store[key].value ELSE fallback]

\* loadState(key, fallback): the value returned and localStorage after the
\* call; NaN < DATA_VERSION is false; a null or empty item is falsy and
\* JSON.parse throws on other text that is not JSON, all giving the fallback
loadState(store, key, fallback) ==
  IF savedVer(store) # << >> /\ savedVer(store)[1] < DATA_VERSION
  THEN [storage |-> [rl_version |-> TextItem(Str(DATA_VERSION)), rl_incomes |-> Absent,
                     rl_expenses |-> Absent, rl_personal |-> Absent, rl_debts |-> Absent],
        value |-> fallback]
  ELSE [storage |-> store,
        value |-> IF store[key].kind = "json" THEN store[key].value ELSE fallback]

Init ==
  /\ today \in CalendarSet
  /\ incomes = INITIAL_TRIPS
  /\ expenses = INITIAL_EXPENSES
  /\ personalExpenses = INITIAL_PERSONAL
  /\ debts = INITIAL_DEBTS
  /\ completedIncomes = filterCompleted(incomes, today)
  /\ pendingIncomes = filterPending(incomes, today)
  /\ pendingTripIds = computePendingTripIds(incomes, today)
  /\ completedExpenses = filterCompletedExpenses(expenses, pendingTripIds)
  /\ memoNow = today
  /\ uuidCount = 0
  /\ ops = 0
  /\ fuelCall = << >>
  /\ fuelCost = << >>
  /\ shown = << >>
  /\ storage = MountedStorage
  /\ boot = "mounted"

\* ------------------------------------------------------------------ actions
\* (a new collection is bound by \E over a one-element set, so that it is
\* computed once per step)
\* the clock reaches a later sampled day; nothing re-renders with new inputs
AdvanceDay ==
  /\ \E later \in CalendarSet : DayNum(later) > DayNum(today) /\ today' = later
  /\ UNCHANGED <<incomes, expenses, personalExpenses, debts, memoVars, uuidCount, ops, probeVars>>

\* inputs of the forms and inline editors
InputDates == {IsoDate(Day(2026, 3, 1)), IsoDate(Day(2026, 10, 5))}

AddDistances == {100}

AddPayouts == {0, 30000}

EditDistances == {0, 150}

EditPayouts == {0, 45000}

ExpenseCategories == {"Fuel", "Insurance", "Maintenance"}

ExpenseAmounts == {500000}

TripIdInputs == {<<"t2">>, <<"t7">>, Uuid(1)}

ExpenseIdInputs == {<<"fuel-", "t7">>, <<"ins-feb">>}

handleAddIncome(date, distance, totalPayout) ==
  /\ ops < MaxOps
  /\ LET trip == [id |-> Uuid(uuidCount + 1), date |-> date, distance |-> distance,
                  ratePerMile |-> IF distance > 0 THEN Rat(totalPayout, distance) ELSE RInt(0),
                  totalPayout |-> totalPayout, fuelRegion |-> UNDEFINED,
                  destFuelRegion |-> UNDEFINED, deadheadMiles |-> 0]
     IN \E newIncomes \in {SortByDateDesc(Append(incomes, trip))} :
           /\ incomes' = newIncomes
           /\ RenderIncomes(newIncomes, expenses)
  /\ uuidCount' = uuidCount + 1
  /\ ops' = ops + 1
  /\ UNCHANGED <<expenses, personalExpenses, debts, today, probeVars>>

handleAddExpense(date, category, amount) ==
  /\ ops < MaxOps
  /\ LET exp == Expense(Uuid(uuidCount + 1), date, category, amount)
     IN \E newExpenses \in {SortByDateDesc(Append(expenses, exp))} :
           /\ expenses' = newExpenses
           /\ RenderExpenses(newExpenses)
  /\ uuidCount' = uuidCount + 1
  /\ ops' = ops + 1
  /\ UNCHANGED <<incomes, personalExpenses, debts, today, probeVars>>

\* a delete that takes the generated expenses of the trip with it
deleteIncomeCascading(id) ==
  /\ ops < MaxOps
  /\ \E k \in DOMAIN incomes : incomes[k].id = id
  /\ \E newIncomes \in {SelectSeq(incomes, LAMBDA i : i.id # id)},
        newExpenses \in {SelectSeq(expenses, LAMBDA e : ~(MatchesTripExpense(e.id) /\ Tail(e.id) = id))} :
        /\ incomes' = newIncomes
        /\ expenses' = newExpenses
        /\ RenderIncomes(newIncomes, newExpenses)
  /\ ops' = ops + 1
  /\ UNCHANGED <<personalExpenses, debts, today, uuidCount, probeVars>>

deleteIncome(id) ==
  /\ ops < MaxOps
  /\ \E k \in DOMAIN incomes : incomes[k].id = id
  /\ \E newIncomes \in {SelectSeq(incomes, LAMBDA i : i.id # id)} :
        /\ incomes' = newIncomes
        /\ RenderIncomes(newIncomes, expenses)
  /\ ops' = ops + 1
  /\ UNCHANGED <<expenses, personalExpenses, debts, today, uuidCount, probeVars>>

deleteExpense(id) ==
  /\ ops < MaxOps
  /\ \E k \in DOMAIN expenses : expenses[k].id = id
  /\ \E newExpenses \in {SelectSeq(expenses, LAMBDA e : e.id # id)} :
        /\ expenses' = newExpenses
        /\ RenderExpenses(newExpenses)
  /\ ops' = ops + 1
  /\ UNCHANGED <<incomes, personalExpenses, debts, today, uuidCount, probeVars>>

\* the rate recomputed from the fields of the trip before the edit
EditedTripStaleRate(inc, field, value) ==
  LET updated == IF field \in {"date", "distance", "totalPayout"}
                 THEN [inc EXCEPT ![field] = value] ELSE inc
  IN IF field = "distance" \/ field = "totalPayout"
     THEN [updated EXCEPT !.ratePerMile = IF inc.distance > 0 THEN Rat(inc.totalPayout, inc.distance) ELSE RInt(0)]
     ELSE updated

\* the trip a field edit of one trip produces
EditedTrip(inc, field, value) ==
  LET updated == IF field \in {"date", "distance", "totalPayout"}
                 THEN [inc EXCEPT ![field] = value] ELSE inc
  IN IF field = "distance" \/ field = "totalPayout"
     THEN LET d == IF field = "distance" THEN value ELSE inc.distance
              p == IF field = "totalPayout" THEN value ELSE inc.totalPayout
          IN [updated EXCEPT !.ratePerMile = IF d > 0 THEN Rat(p, d) ELSE RInt(0)]
     ELSE updated

\* field is one of the fields the inline editor writes; "originCity" stands
\* for the text fields of a trip that no derived total reads
handleEditTrip(id, field, value) ==
  /\ ops < MaxOps
  /\ \E k \in DOMAIN incomes : incomes[k].id = id
  /\ \E newIncomes \in {[k \in DOMAIN incomes |->
                            IF incomes[k].id # id THEN incomes[k]
                            ELSE EditedTrip(incomes[k], field, value)]} :
        /\ incomes' = newIncomes
        /\ RenderIncomes(newIncomes, expenses)
  /\ ops' = ops + 1
  /\ UNCHANGED <<expenses, personalExpenses, debts, today, uuidCount, probeVars>>

\* A manifest line after split(',') and trim: kind is "header" for a line
\* that starts with 'date', "blank" for a line of white space, "data"
\* otherwise; nparts is the number of fields; miles and pay are
\* Number(milesStr) and Number(payStr), << >> standing for NaN; pay is in
\* cents.
ManifestLine(kind, nparts, date, miles, pay) ==
  [kind |-> kind, nparts |-> nparts, date |-> date, miles |-> miles, pay |-> pay]

\* the lines the model imports; a date is empty or in the yyyy-mm-dd format
\* the import dialog documents (2026-03-01,Houston TX,Dallas TX,240,650,TQL)
ManifestLines ==
  { ManifestLine("header", 6, << >>, << >>, << >>),
    ManifestLine("data", 3, IsoDate(Day(2026, 3, 1)), << >>, << >>),
    ManifestLine("data", 6, IsoDate(Day(2026, 3, 1)), <<240>>, <<65000>>),
    ManifestLine("data", 5, << >>, <<120>>, <<30000>>),
    ManifestLine("data", 6, IsoDate(Day(2026, 10, 5)), <<0>>, << >>) }

ManifestTexts == UNION {[1..n -> ManifestLines] : n \in 0..MaxRows}

\* !x for a number
FalsyNumber(x) == x = << >> \/ x = <<0>>

\* the lines from which the forEach body creates a trip
AcceptedLine(line) ==
  /\ line.kind = "data"
  /\ line.nparts >= 5
  /\ ~FalsyNumber(line.miles)
  /\ ~FalsyNumber(line.pay)

\* date || new Date().toISOString().split('T')[0]
OrUtcToday(date, utcNow) == IF date = << >> THEN IsoDate(utcNow) ELSE date

\* newTrips and newExps of handleManifestUpload; first is the number of
\* identifiers handed out before the call
RECURSIVE ManifestTrips(_, _, _)
ManifestTrips(lines, first, utcNow) ==
  IF lines = << >> THEN << >>
  ELSE IF ~AcceptedLine(Head(lines)) THEN ManifestTrips(Tail(lines), first, utcNow)
  ELSE LET l == Head(lines)
       IN << [id |-> Uuid(first + 1), date |-> OrUtcToday(l.date, utcNow), distance |-> l.miles[1],
              ratePerMile |-> Rat(l.pay[1], l.miles[1]), totalPayout |-> l.pay[1],
              fuelRegion |-> UNDEFINED, destFuelRegion |-> UNDEFINED, deadheadMiles |-> 0] >>
          \o ManifestTrips(Tail(lines), first + 1, utcNow)

\* the fuel expenses of an import that dates every one of them on the day of
\* the import instead of the day of its trip
RECURSIVE ManifestExpensesDatedToday(_, _, _)
ManifestExpensesDatedToday(lines, first, utcNow) ==
  IF lines = << >> THEN << >>
  ELSE IF ~AcceptedLine(Head(lines)) THEN ManifestExpensesDatedToday(Tail(lines), first, utcNow)
  ELSE LET l == Head(lines)
       IN << Expense(<<"fuel-">> \o Uuid(first + 1), IsoDate(utcNow), "Fuel",
                     MathRound(fuelCostForMiles(l.miles[1], "AVG", UNDEFINED))) >>
          \o ManifestExpensesDatedToday(Tail(lines), first + 1, utcNow)

RECURSIVE ManifestExpenses(_, _, _)
ManifestExpenses(lines, first, utcNow) ==
  IF lines = << >> THEN << >>
  ELSE IF ~AcceptedLine(Head(lines)) THEN ManifestExpenses(Tail(lines), first, utcNow)
  ELSE LET l == Head(lines)
       IN << Expense(<<"fuel-">> \o Uuid(first + 1), OrUtcToday(l.date, utcNow), "Fuel",
                     MathRound(fuelCostForMiles(l.miles[1], "AVG", UNDEFINED))) >>
          \o ManifestExpenses(Tail(lines), first + 1, utcNow)

\* utcNow is the UTC civil day of new Date(): the local day or the next one
handleManifestUpload(lines, utcNow) ==
  /\ ops < MaxOps
  /\ utcNow \in {today, NextDay(today)}
  /\ utcNow # today => \E k \in DOMAIN lines : AcceptedLine(lines[k]) /\ lines[k].date = << >>
  /\ \E newTrips \in {ManifestTrips(lines, uuidCount, utcNow)},
        newExps \in {ManifestExpenses(lines, uuidCount, utcNow)} :
        IF Len(newTrips) > 0
        THEN /\ uuidCount' = uuidCount + Len(newTrips)
             /\ \E newIncomes \in {SortByDateDesc(incomes \o newTrips)} :
                   /\ incomes' = newIncomes
                   /\ \E newExpenses \in {SortByDateDesc(expenses \o newExps)} :
                         /\ expenses' = newExpenses
                         /\ RenderIncomes(newIncomes, newExpenses)
        ELSE UNCHANGED <<incomes, expenses, memoVars, uuidCount>>
  /\ ops' = ops + 1
  /\ UNCHANGED <<personalExpenses, debts, today, probeVars>>

PersonalIdInputs == {"p1", "p7"}

\* Number(e.target.value) || 0, in cents; the input has no min attribute, so
\* an amount below zero is taken as entered
PersonalAmounts == {0, 250000, -240000, -500000}

NewPersonalInputs == {<<"Debt", 50000>>, <<"Savings", 20000>>}

editPersonalAmount(id, amount) ==
  /\ ops < MaxOps
  /\ \E k \in DOMAIN personalExpenses : personalExpenses[k].id = id
  /\ personalExpenses' = [k \in DOMAIN personalExpenses |->
                            IF personalExpenses[k].id = id
                            THEN [personalExpenses[k] EXCEPT !.monthlyAmount = amount]
                            ELSE personalExpenses[k]]
  /\ ops' = ops + 1
  /\ UNCHANGED <<incomes, expenses, debts, today, memoVars, uuidCount, probeVars>>

deletePersonal(id) ==
  /\ ops < MaxOps
  /\ \E k \in DOMAIN personalExpenses : personalExpenses[k].id = id
  /\ personalExpenses' = SelectSeq(personalExpenses, LAMBDA p : p.id # id)
  /\ ops' = ops + 1
  /\ UNCHANGED <<incomes, expenses, debts, today, memoVars, uuidCount, probeVars>>

\* id is `p-${Date.now()}`
addPersonal(category, amount) ==
  /\ ops < MaxOps
  /\ personalExpenses' = Append(personalExpenses,
                                Personal("p-" \o ToString(uuidCount + 1), category, amount))
  /\ uuidCount' = uuidCount + 1
  /\ ops' = ops + 1
  /\ UNCHANGED <<incomes, expenses, debts, today, memoVars, probeVars>>

DebtIdInputs == {"d1", "d4", "d6"}

\* Number(amt) for the prompt's non-empty answer, in cents; << >> is NaN
PayInputs == {<<50000>>, <<400000>>, <<-10000>>, << >>}

\* Math.max(0, amount - pay); NaN is << >>
PaidAmount(amount, pay) == IF pay = << >> THEN << >> ELSE <<Max(0, amount - pay[1])>>

\* the Pay button: map then filter(dd => dd.amount > 0); NaN > 0 is false
\* the Pay handler without the removal of debts that reached zero
payDebtKeepsZero(id, pay) ==
  /\ ops < MaxOps
  /\ \E k \in DOMAIN debts : debts[k].id = id
  /\ LET paid(dd) == IF dd.id = id THEN PaidAmount(dd.amount, pay) ELSE <<dd.amount>>
         kept == SelectSeq(debts, LAMBDA dd : paid(dd) # << >>)
     IN debts' = [k \in DOMAIN kept |-> [kept[k] EXCEPT !.amount = paid(kept[k])[1]]]
  /\ ops' = ops + 1
  /\ UNCHANGED <<incomes, expenses, personalExpenses, today, memoVars, uuidCount, probeVars>>

payDebt(id, pay) ==
  /\ ops < MaxOps
  /\ \E k \in DOMAIN debts : debts[k].id = id
  /\ LET paid(dd) == IF dd.id = id THEN PaidAmount(dd.amount, pay) ELSE <<dd.amount>>
         kept == SelectSeq(debts, LAMBDA dd : paid(dd) # << >> /\ paid(dd)[1] > 0)
     IN debts' = [k \in DOMAIN kept |-> [kept[k] EXCEPT !.amount = paid(kept[k])[1]]]
  /\ ops' = ops + 1
  /\ UNCHANGED <<incomes, expenses, personalExpenses, today, memoVars, uuidCount, probeVars>>

\* --------------------------------------------------------------------- Next
AddIncomeStep ==
  \E date \in InputDates, distance \in AddDistances, payout \in AddPayouts :
    handleAddIncome(date, distance, payout)

AddExpenseStep ==
  \E date \in InputDates, category \in ExpenseCategories, amount \in ExpenseAmounts :
    handleAddExpense(date, category, amount)

DeleteIncomeStep == \E id \in TripIdInputs : deleteIncome(id)

DeleteExpenseStep == \E id \in ExpenseIdInputs : deleteExpense(id)

EditDateStep == \E id \in TripIdInputs, date \in InputDates : handleEditTrip(id, "date", date)

EditDistanceStep == \E id \in TripIdInputs, d \in EditDistances : handleEditTrip(id, "distance", d)

EditPayoutStep == \E id \in TripIdInputs, p \in EditPayouts : handleEditTrip(id, "totalPayout", p)

EditTextStep == \E id \in TripIdInputs : handleEditTrip(id, "originCity", "")

ManifestStep ==
  \E lines \in ManifestTexts, utcNow \in {today, NextDay(today)} : handleManifestUpload(lines, utcNow)

PersonalStep ==
  \/ \E id \in PersonalIdInputs, amount \in PersonalAmounts : editPersonalAmount(id, amount)
  \/ \E id \in PersonalIdInputs : deletePersonal(id)
  \/ \E np \in NewPersonalInputs : addPersonal(np[1], np[2])

PayStep == \E id \in DebtIdInputs, pay \in PayInputs : payDebt(id, pay)

Next ==
  \/ AdvanceDay
  \/ AddIncomeStep
  \/ AddExpenseStep
  \/ DeleteIncomeStep
  \/ DeleteExpenseStep
  \/ EditDateStep
  \/ EditDistanceStep
  \/ EditPayoutStep
  \/ EditTextStep
  \/ ManifestStep
  \/ PersonalStep
  \/ PayStep

Spec == Init /\ [][Next]_vars

RECURSIVE SumCategories(_, _)
\* exps.filter(e => cats.includes(e.category)).reduce((s, e) => s + e.amount, 0)
SumCategories(exps, cats) ==
  IF exps = << >> THEN 0
  ELSE (IF Head(exps).category \in cats THEN Head(exps).amount ELSE 0) + SumCategories(Tail(exps), cats)

\* analysis.ownerOperatorCashProfit
ownerOperatorCashProfit == totalIncome - totalExpenses

\* analysis.totalHiddenCosts = maintReserve + vehicleDepreciation
totalHiddenCosts ==
  RAdd(RInt(totalMiles * CASCADIA_MAINT_RESERVE), RMul(RInt(totalMiles), CASCADIA_DEPR_RATE))

\* analysis.ownerOperatorTrueProfit
ownerOperatorTrueProfit == RSub(RInt(ownerOperatorCashProfit), totalHiddenCosts)

\* A profit is a number of cents with a denominator that divides the one of
\* the reserve rate, and its product with the tax rate has a denominator
\* that divides TaxDen.  Such a product and what is computed from it is kept
\* as a mixed number <<w, f>>, standing for w + f / TaxDen with
\* 0 <= f < TaxDen, so that no numerator leaves 32 bits.
TaxDen == CASCADIA_DEPR_RATE[2] * TOTAL_TAX_RATE[2]

Mixed(r) == <<FloorDiv(r[1], r[2]), (r[1] % r[2]) * (TaxDen \div r[2])>>

MixedNeg(a) == IF a[2] = 0 THEN <<-a[1], 0>> ELSE <<-a[1] - 1, TaxDen - a[2]>>

MixedSub(a, b) ==
  IF a[2] >= b[2] THEN <<a[1] - b[1], a[2] - b[2]>> ELSE <<a[1] - b[1] - 1, a[2] - b[2] + TaxDen>>

MixedLe(a, b) == a[1] < b[1] \/ (a[1] = b[1] /\ a[2] <= b[2])

\* r * rate for r >= 0
TimesRateNonNeg(r, rate) ==
  CHOOSE m \in {<<qr[1], qr[2] * (TaxDen \div (r[2] * rate[2]))>> :
                  qr \in {MulDivMod(r[1], rate[1], r[2] * rate[2])}} : TRUE

\* r * rate
TimesRate(r, rate) ==
  IF r[1] >= 0 THEN TimesRateNonNeg(r, rate) ELSE MixedNeg(TimesRateNonNeg(RNeg(r), rate))

\* a tax that is a rebate on a loss
taxWithRebate(trueProfit) == TimesRate(trueProfit, TOTAL_TAX_RATE)

\* Math.max(0, ownerOperatorTrueProfit) * TOTAL_TAX_RATE
estimatedTaxOf(trueProfit) == TimesRate(RMax(RInt(0), trueProfit), TOTAL_TAX_RATE)

\* ownerOperatorTrueProfit - estimatedTax
afterTaxProfitOf(trueProfit) == MixedSub(Mixed(trueProfit), estimatedTaxOf(trueProfit))

\* the cash and reserve figures of the analysis snapshot
analysis ==
  [totalMiles |-> totalMiles,
   trackedFuelCost |-> SumCategories(expenses, {"Fuel"}),
   maintReserve |-> totalMiles * CASCADIA_MAINT_RESERVE,
   vehicleDepreciation |-> RMul(RInt(totalMiles), CASCADIA_DEPR_RATE),
   totalHiddenCosts |-> totalHiddenCosts,
   ownerOperatorCashProfit |-> ownerOperatorCashProfit,
   ownerOperatorTrueProfit |-> ownerOperatorTrueProfit,
   companyEquivalentEarnings |-> totalMiles * COMPANY_DRIVER_RATE,
   estimatedTax |-> estimatedTaxOf(ownerOperatorTrueProfit),
   afterTaxProfit |-> afterTaxProfitOf(ownerOperatorTrueProfit)]

\* ------------------------------------------------------- revenue waterfall
MixedAdd(a, b) == MixedSub(a, MixedNeg(b))

MixedMin(a, b) == IF MixedLe(a, b) THEN a ELSE b

MixedMax(a, b) == IF MixedLe(b, a) THEN a ELSE b

Bucket(label, amount, filled) == [label |-> label, amount |-> amount, filled |-> filled]

\* buckets whose fills are not clamped at zero
BucketsUnclamped(income, bizExpenses, personalCosts, taxCosts) ==
  LET afterBiz == MixedSub(income, bizExpenses)
      afterPersonal == MixedSub(afterBiz, personalCosts)
      afterTax == MixedSub(afterPersonal, taxCosts)
  IN << Bucket("Business", bizExpenses, MixedMin(income, bizExpenses)),
        Bucket("Personal + Debt", personalCosts, MixedMin(afterBiz, personalCosts)),
        Bucket("Taxes", taxCosts, MixedMin(afterPersonal, taxCosts)),
        Bucket("Surplus", afterTax, afterTax) >>

\* const buckets = [...]: the amount and the filled part of each bucket
Buckets(income, bizExpenses, personalCosts, taxCosts) ==
  LET afterBiz == MixedSub(income, bizExpenses)
      afterPersonal == MixedSub(afterBiz, personalCosts)
      afterTax == MixedSub(afterPersonal, taxCosts)
  IN << Bucket("Business", bizExpenses, MixedMin(income, bizExpenses)),
        Bucket("Personal + Debt", personalCosts, MixedMax(<<0, 0>>, MixedMin(afterBiz, personalCosts))),
        Bucket("Taxes", taxCosts, MixedMax(<<0, 0>>, MixedMin(afterPersonal, taxCosts))),
        Bucket("Surplus", MixedMax(<<0, 0>>, afterTax), MixedMax(<<0, 0>>, afterTax)) >>

\* the buckets of the dashboard render
Waterfall ==
  CHOOSE b \in {Buckets(<<totalIncome, 0>>, Mixed(RAdd(RInt(totalExpenses), hidden)),
                        <<totalPersonalMonthly, 0>>,
                        estimatedTaxOf(RSub(RInt(ownerOperatorCashProfit), hidden))) :
                  hidden \in {totalHiddenCosts}} : TRUE

\* ---------------------------------------------------------------- break-even
FixedCostCategories == {"Insurance", "Registration", "Tolls", "Dispatch", "Lock Box", "Trailer", "Food"}

\* personalExpenses.find(p => p.category === 'Debt')?.monthlyAmount ?? 0
FindDebtPayment(ps) ==
  IF \E k \in DOMAIN ps : ps[k].category = "Debt"
  THEN ps[CHOOSE k \in DOMAIN ps : ps[k].category = "Debt" /\ \A j \in 1..(k - 1) : ps[j].category # "Debt"].monthlyAmount
  ELSE 0

\* per-mile economics (cents per mile); 200 is the default rate 2.0
PerMile(tMiles, tIncome, fuelSum) ==
  LET ratePerMile == IF tMiles > 0 THEN Rat(tIncome, tMiles) ELSE RInt(200)
      fuelPerMile == IF tMiles > 0 THEN Rat(fuelSum, tMiles) ELSE Rat(PriceOf("AVG"), MPG)
      variableCostPerMile == RAdd(RAdd(fuelPerMile, CASCADIA_DEPR_RATE), RInt(CASCADIA_MAINT_RESERVE))
  IN [ratePerMile |-> ratePerMile, fuelPerMile |-> fuelPerMile,
      variableCostPerMile |-> variableCostPerMile,
      marginalProfitPerMile |-> RSub(ratePerMile, variableCostPerMile)]

Margins(pm, tMiles, tIncome, fixedCosts) ==
  LET grossMargin == RSub(RInt(tIncome), RMul(RInt(tMiles), pm.variableCostPerMile))
  IN [grossMargin |-> grossMargin, afterFixed |-> RSub(grossMargin, RInt(fixedCosts)),
      fixedCovered |-> RLe(RInt(fixedCosts), grossMargin)]

Needs(pm, mg, personalNeed, debtPayment) ==
  LET takeHomeNeed == personalNeed + debtPayment
      shortfall == RMax(RInt(0), RSub(RInt(takeHomeNeed), RMax(RInt(0), mg.afterFixed)))
      goalMet == RLe(RInt(takeHomeNeed), mg.afterFixed)
      milesNeeded == IF RSign(pm.marginalProfitPerMile) > 0
                     THEN RCeilQuot(shortfall, pm.marginalProfitPerMile) ELSE 0
      pctCovered == IF takeHomeNeed > 0
                    THEN RMin(RInt(100), RMul(RMax(RInt(0), mg.afterFixed), Rat(100, takeHomeNeed)))
                    ELSE RInt(100)
  IN [takeHomeNeed |-> takeHomeNeed, shortfall |-> shortfall, milesNeeded |-> milesNeeded,
      pctCovered |-> pctCovered, goalMet |-> goalMet,
      \* the bottom line of the panel: a surplus, or "<n> more miles needed"
      bottomLine |-> IF goalMet
                     THEN [kind |-> "surplus", value |-> RSub(mg.afterFixed, RInt(takeHomeNeed))]
                     ELSE [kind |-> "more miles needed", value |-> RInt(milesNeeded)]]

\* the Monthly Break-Even computation of the dashboard render
BreakEvenOf(tMiles, tIncome, compExps, personal) ==
  CHOOSE be \in UNION { UNION { { [pm |-> pm, mg |-> mg, nd |-> nd] :
                                    nd \in {Needs(pm, mg, SumMonthly(personal), FindDebtPayment(personal))} } :
                                mg \in {Margins(pm, tMiles, tIncome, SumCategories(compExps, FixedCostCategories))} } :
                        pm \in {PerMile(tMiles, tIncome, SumCategories(compExps, {"Fuel"}))} } : TRUE

BreakEven == BreakEvenOf(totalMiles, totalIncome, completedExpenses, personalExpenses)

\* A figure that a division by zero can produce is a pair <<n, d>> with
\* d = 0: <<1, 0>> is Infinity, <<-1, 0>> is -Infinity, <<0, 0>> is NaN.
IsFiniteNumber(x) == x[2] # 0

\* Math.ceil(a / b) for a >= 0 or not finite, and b >= 0 and finite (the
\* amounts, miles and payouts of the model are not negative)
CeilDivNumber(a, b) ==
  IF ~IsFiniteNumber(a) THEN a
  ELSE IF b[1] = 0 THEN <<RSign(a), 0>>
  ELSE RInt(RCeilQuot(a, b))

\* "≈ n trips" of the break-even bottom line
tripsNeeded(milesNeeded) ==
  RCeilQuot(RInt(milesNeeded), RMax(RInt(1), Rat(totalMiles, Max(1, Len(completedIncomes)))))

\* "Need Monthly" of the personal tab
needMonthly == RAdd(RInt(totalPersonalMonthly + totalExpenses), totalHiddenCosts)

\* "Min Miles/Mo" of the personal tab
minMilesPerMonth == CeilDivNumber(needMonthly, Rat(totalIncome, Max(1, totalMiles)))

\* "Min Trips/Mo" of the personal tab
minTripsPerMonth ==
  CHOOSE t \in {CeilDivNumber(mm, Rat(totalMiles, Max(1, Len(incomes)))) : mm \in {minMilesPerMonth}} : TRUE

\* ------------------------------------------------------------ monthly report
\* [...new Set([...incomes.map(i => i.date.substring(0, 7)), ...expenses.map(...)])]
ReportMonths(incs, exps) ==
  {substring0(incs[k].date, 7) : k \in DOMAIN incs} \cup {substring0(exps[k].date, 7) : k \in DOMAIN exps}

\* mRevenue - mFuel - mOther - mMiles * (CASCADIA_DEPR_RATE + CASCADIA_MAINT_RESERVE)
MonthlyProfit(mRevenue, mMiles, mFuel, mOther) ==
  RSub(RInt(mRevenue - mFuel - mOther),
       RMul(RInt(mMiles), RAdd(CASCADIA_DEPR_RATE, RInt(CASCADIA_MAINT_RESERVE))))

\* one row of the Monthly P&L table
MonthlyRow(month, incs, exps) ==
  LET mInc == SelectSeq(incs, LAMBDA i : startsWith(i.date, month))
      mExp == SelectSeq(exps, LAMBDA e : startsWith(e.date, month))
      mFuel == SumCategories(mExp, {"Fuel", "Deadhead"})
      mOther == SumAmount(SelectSeq(mExp, LAMBDA e : e.category # "Fuel" /\ e.category # "Deadhead"))
  IN CHOOSE row \in
       {[month |-> month, trips |-> Len(mInc), mRevenue |-> SumPayout(mInc), mMiles |-> SumDistance(mInc),
         mFuel |-> mFuel, mOther |-> mOther, mProfit |-> mProfit,
         mTax |-> TimesRate(RMax(RInt(0), mProfit), TOTAL_TAX_RATE),
         mNet |-> MixedSub(Mixed(mProfit), TimesRate(RMax(RInt(0), mProfit), TOTAL_TAX_RATE))] :
        mProfit \in {MonthlyProfit(SumPayout(mInc), SumDistance(mInc), mFuel, mOther)}} : TRUE

\* the rows of the table, as a function of the month
MonthlyRows == [month \in ReportMonths(incomes, expenses) |-> MonthlyRow(month, incomes, expenses)]

\* ---------------------------------------------------------------- debt plan
CREDIT_CARD == "Credit Card"

\* d.dueDate && Number(d.dueDate) < new Date().getFullYear()
isOverdue(d, now) ==
  /\ d.dueDate # << >>
  /\ NumberOf(d.dueDate) # << >>
  /\ NumberOf(d.dueDate)[1] < now.y

\* the comparator of [...debts].sort(...)
PayoffCompare(a, b, now) ==
  IF a.to = CREDIT_CARD THEN -1
  ELSE IF b.to = CREDIT_CARD THEN 1
  ELSE IF isOverdue(a, now) /\ ~isOverdue(b, now) THEN -1
  ELSE IF ~isOverdue(a, now) /\ isOverdue(b, now) THEN 1
  ELSE a.amount - b.amount

\* Array.prototype.sort with the payoff comparator.  The sort is stable, and
\* for a pair the comparator orders consistently the result has the smaller
\* element first; for a pair it orders inconsistently (both calls negative)
\* the order is implementation-defined, so every order of the pair is an
\* outcome.  An outcome is a permutation of the positions of ds.
PayoffCompareTable(ds, now) ==
  [i \in DOMAIN ds |-> [j \in DOMAIN ds |-> PayoffCompare(ds[i], ds[j], now)]]

\* g is an outcome for the comparison table cmp
IsSortOutcome(g, cmp) ==
  \A m, n \in DOMAIN g :
     m < n =>
       /\ ~(cmp[g[n]][g[m]] < 0 /\ cmp[g[m]][g[n]] > 0)
       /\ (cmp[g[m]][g[n]] = 0 /\ cmp[g[n]][g[m]] = 0) => g[m] < g[n]

PayoffOrders(ds, now) ==
  UNION { { [n \in DOMAIN ds |-> ds[g[n]]] :
              g \in {f \in Permutations(DOMAIN ds) : IsSortOutcome(f, cmp)} } :
          cmp \in {PayoffCompareTable(ds, now)} }

\* ------------------------------------------- debts as loaded from storage
\* loadState('rl_debts', INITIAL_DEBTS) with a current rl_version returns the
\* stored Debt[]; SpecDebts starts from the stored collections below.
DebtPool ==
  {[to |-> CREDIT_CARD, amount |-> a, dueDate |-> << >>] : a \in {50000, 100000}}
  \cup {[to |-> "Cousin", amount |-> a, dueDate |-> d] : a \in {100000, 200000}, d \in {<< >>, Str(2024)}}
  \cup {[to |-> "Cousin", amount |-> 100000, dueDate |-> IsoDate(Day(2026, 2, 10))]}

StoredDebts ==
  {[k \in DOMAIN c |-> Debt("d" \o ToString(k), c[k].to, c[k].amount, c[k].dueDate)] :
     c \in UNION {[1..n -> DebtPool] : n \in 0..MaxDebts}}

InitDebts ==
  /\ today = Day(2026, 3, 1)
  /\ incomes = INITIAL_TRIPS
  /\ expenses = INITIAL_EXPENSES
  /\ personalExpenses = INITIAL_PERSONAL
  /\ debts \in StoredDebts \cup {INITIAL_DEBTS}
  /\ completedIncomes = filterCompleted(incomes, today)
  /\ pendingIncomes = filterPending(incomes, today)
  /\ pendingTripIds = computePendingTripIds(incomes, today)
  /\ completedExpenses = filterCompletedExpenses(expenses, pendingTripIds)
  /\ memoNow = today
  /\ uuidCount = 0
  /\ ops = 0
  /\ fuelCall = << >>
  /\ fuelCost = << >>
  /\ shown = << >>
  /\ storage = MountedStorage
  /\ boot = "mounted"

NextDebts == AdvanceDay \/ PayStep

SpecDebts == InitDebts /\ [][NextDebts]_vars

\* --------------------------------------------- computing the derived figures
\* sorted.map((d, i) => ...): months for each debt and the running month its
\* pay-off date is computed from
\* a plan whose running month starts again with every debt
PayoffPlanNotAccumulating(sorted, runningMonth) ==
  [k \in DOMAIN sorted |->
     [id |-> sorted[k].id,
      monthsForThis |-> (sorted[k].amount + PayoffBudget - 1) \div PayoffBudget,
      runningMonth |-> (sorted[k].amount + PayoffBudget - 1) \div PayoffBudget]]

\* new Date(now.getTime() + runningMonth * 30 * 86400000), as a day number
paidBy(now, runningMonth) == DayNum(now) + runningMonth * 30

\* "~n months to go" of the dashboard:
\* Math.ceil(totalDebt / Math.max(1, debtPayment)), amounts in cents
monthsToGo ==
  CHOOSE n \in {(totalDebt + dp - 1) \div dp : dp \in {Max(100, FindDebtPayment(personalExpenses))}} : TRUE

\* "paid off in ~n months" of the debt tracker and totalMonths of the
\* timeline: Math.ceil(totalDebt / 1000)
payoffMonths == (totalDebt + PayoffBudget - 1) \div PayoffBudget

\* the date of "paid off in ..." and of "Debt Free":
\* new Date(Date.now() + Math.ceil(totalDebt / 1000) * 30 * 86400000)
debtFreeDate(now) == DayNum(now) + payoffMonths * 30

RECURSIVE PayoffPlan(_, _)
PayoffPlan(sorted, runningMonth) ==
  IF sorted = << >> THEN << >>
  ELSE \* Math.ceil(d.amount / 1000)
       LET monthsForThis == (Head(sorted).amount + PayoffBudget - 1) \div PayoffBudget
       IN << [id |-> Head(sorted).id, monthsForThis |-> monthsForThis,
              runningMonth |-> runningMonth + monthsForThis] >>
          \o PayoffPlan(Tail(sorted), runningMonth + monthsForThis)

\* the figures one render computes, with the collections and dates they were
\* computed from; again tells that figures had been computed before
Shown(again, sorted) ==
  [again |-> again, incomes |-> incomes, expenses |-> expenses, personalExpenses |-> personalExpenses,
   debts |-> debts, memoNow |-> memoNow, today |-> today,
   analysis |-> analysis, breakEven |-> BreakEven, rows |-> MonthlyRows, plan |-> PayoffPlan(sorted, 0)]

\* a render whose payoff plan sorts the debt list itself
RenderSortingInPlace ==
  /\ \E sorted \in PayoffOrders(debts, today) :
        /\ shown' = << Shown(shown # << >>, sorted) >>
        /\ debts' = sorted
  /\ UNCHANGED <<incomes, expenses, personalExpenses, today, memoVars, uuidCount, ops, fuelCall, fuelCost, storage, boot>>

\* a render of the dashboard, break-even, reports and debt tabs: the
\* analysis snapshot, the break-even figures, the monthly rows and the
\* payoff plan, whose sort works on [...debts]
RenderReports ==
  /\ \E sorted \in PayoffOrders(debts, today) : shown' = << Shown(shown # << >>, sorted) >>
  /\ UNCHANGED <<incomes, expenses, personalExpenses, debts, today, memoVars, uuidCount, ops, fuelCall, fuelCost, storage, boot>>

NextRender ==
  \/ RenderReports
  \/ AdvanceDay
  \/ DeleteIncomeStep
  \/ PayStep

SpecRender == Init /\ [][NextRender]_vars

\* --------------------------------------------- the ledger of the reports tab
\* the inline date input of a trip in edit mode, cleared: its value is ''
ClearDateStep == \E id \in TripIdInputs : handleEditTrip(id, "date", << >>)

\* the handlers that change the dates the monthly table groups by, without
\* the handlers that sort trips by date
NextReports ==
  \/ AdvanceDay
  \/ AddExpenseStep
  \/ DeleteIncomeStep
  \/ DeleteExpenseStep
  \/ EditDateStep
  \/ ClearDateStep

SpecReports == Init /\ [][NextReports]_vars

\* ---------------------------------------------------------------- start-up
\* what localStorage holds when the page is opened
StoredVersions ==
  {Absent, TextItem(<< >>), TextItem(Str(0)), TextItem(Str(DATA_VERSION - 1)),
   TextItem(Str(DATA_VERSION)), TextItem(Str(DATA_VERSION + 1)), TextItem(<<97, 98, 99>>)}

StoredIncomes == {Absent, TextItem(<< >>), TextItem(<<123>>), JsonItem(SubSeq(INITIAL_TRIPS, 1, 2))}

StoredExpenses == {Absent, TextItem(<<123>>), JsonItem(SubSeq(INITIAL_EXPENSES, 1, 1))}

StoredPersonal == {Absent, JsonItem(<< Personal("p1", "Housing", 150000) >>)}

StoredDebtItems ==
  {Absent, TextItem(<<123>>), JsonItem(<< >>), JsonItem(<< Debt("d1", CREDIT_CARD, 50000, << >>) >>)}

InitStart ==
  /\ today = Day(2026, 3, 1)
  /\ storage \in [rl_version : StoredVersions, rl_incomes : StoredIncomes, rl_expenses : StoredExpenses,
                   rl_personal : StoredPersonal, rl_debts : StoredDebtItems]
  /\ boot = "rl_incomes"
  /\ incomes = << >>
  /\ expenses = << >>
  /\ personalExpenses = << >>
  /\ debts = << >>
  /\ completedIncomes = << >>
  /\ pendingIncomes = << >>
  /\ pendingTripIds = {}
  /\ completedExpenses = << >>
  /\ memoNow = today
  /\ uuidCount = 0
  /\ ops = 0
  /\ fuelCall = << >>
  /\ fuelCost = << >>
  /\ shown = << >>

\* useState<Income[]>(() => loadState('rl_incomes', INITIAL_TRIPS))
LoadIncomes ==
  /\ boot = "rl_incomes"
  /\ \E r \in {loadState(storage, "rl_incomes", INITIAL_TRIPS)} : incomes' = r.value /\ storage' = r.storage
  /\ boot' = "rl_expenses"
  /\ UNCHANGED <<expenses, personalExpenses, debts, today, memoVars, uuidCount, ops, fuelCall, fuelCost, shown>>

\* useState<Expense[]>(() => loadState('rl_expenses', INITIAL_EXPENSES))
LoadExpenses ==
  /\ boot = "rl_expenses"
  /\ \E r \in {loadState(storage, "rl_expenses", INITIAL_EXPENSES)} : expenses' = r.value /\ storage' = r.storage
  /\ boot' = "rl_personal"
  /\ UNCHANGED <<incomes, personalExpenses, debts, today, memoVars, uuidCount, ops, fuelCall, fuelCost, shown>>

\* useState<PersonalExpense[]>(() => loadState('rl_personal', INITIAL_PERSONAL))
LoadPersonal ==
  /\ boot = "rl_personal"
  /\ \E r \in {loadState(storage, "rl_personal", INITIAL_PERSONAL)} :
        personalExpenses' = r.value /\ storage' = r.storage
  /\ boot' = "rl_debts"
  /\ UNCHANGED <<incomes, expenses, debts, today, memoVars, uuidCount, ops, fuelCall, fuelCost, shown>>

\* useState<Debt[]>(() => loadState('rl_debts', INITIAL_DEBTS))
LoadDebts ==
  /\ boot = "rl_debts"
  /\ \E r \in {loadState(storage, "rl_debts", INITIAL_DEBTS)} : debts' = r.value /\ storage' = r.storage
  /\ boot' = "render"
  /\ UNCHANGED <<incomes, expenses, personalExpenses, today, memoVars, uuidCount, ops, fuelCall, fuelCost, shown>>

\* the rest of the first render and its effects: the memos are computed and
\* the four persistence effects store the collections
Mount ==
  /\ boot = "render"
  /\ RenderIncomes(incomes, expenses)
  /\ storage' = [rl_version |-> storage.rl_version, rl_incomes |-> Current, rl_expenses |-> Current,
                 rl_personal |-> Current, rl_debts |-> Current]
  /\ boot' = "mounted"
  /\ UNCHANGED <<incomes, expenses, personalExpenses, debts, today, uuidCount, ops, fuelCall, fuelCost, shown>>

\* the handlers work on the mounted app
Mounted ==
  /\ boot = "mounted"
  /\ (DeleteIncomeStep \/ PayStep)

NextStart ==
  \/ LoadIncomes
  \/ LoadExpenses
  \/ LoadPersonal
  \/ LoadDebts
  \/ Mount
  \/ Mounted

SpecStart == InitStart /\ [][NextStart]_vars

\* ------------------------------------------------- the fuel cost of one trip
\* A trip of any of these distances and regions has its fuel cost computed
\* as buildExpenses computes it; "ZZ" is a region the price table lacks.
FuelDistances == {0, 250, 1000}

FuelOrigins == DOMAIN REGIONAL_DIESEL \cup {UNDEFINED, "ZZ"}

FuelDestinations == DOMAIN REGIONAL_DIESEL \cup {UNDEFINED, "", "ZZ"}

FuelTrips == [distance : FuelDistances, fuelRegion : FuelOrigins, destFuelRegion : FuelDestinations]

InitFuel ==
  /\ today = Day(2026, 3, 1)
  /\ incomes = INITIAL_TRIPS
  /\ expenses = INITIAL_EXPENSES
  /\ personalExpenses = INITIAL_PERSONAL
  /\ debts = INITIAL_DEBTS
  /\ completedIncomes = filterCompleted(incomes, today)
  /\ pendingIncomes = filterPending(incomes, today)
  /\ pendingTripIds = computePendingTripIds(incomes, today)
  /\ completedExpenses = filterCompletedExpenses(expenses, pendingTripIds)
  /\ memoNow = today
  /\ uuidCount = 0
  /\ ops = 0
  /\ \E trip \in FuelTrips : fuelCall = <<trip>>
  /\ fuelCost = << >>
  /\ shown = << >>
  /\ storage = MountedStorage
  /\ boot = "mounted"

\* const fuelCost = fuelCostForMiles(trip.distance, trip.fuelRegion ?? 'AVG', trip.destFuelRegion)
CallFuelCost ==
  /\ fuelCall # << >>
  /\ fuelCost = << >>
  /\ fuelCost' = fuelCostForMiles(fuelCall[1].distance, OrAvg(fuelCall[1].fuelRegion), fuelCall[1].destFuelRegion)
  /\ UNCHANGED <<incomes, expenses, personalExpenses, debts, today, memoVars, uuidCount, ops, fuelCall, shown, storage, boot>>

NextFuel == CallFuelCost

SpecFuel == InitFuel /\ [][NextFuel]_vars

\* ==================================================================== claims
\* the civil day of a yyyy-mm-dd trip date is on or before the given day
OnOrBefore(date, day) == DayNum(ParseIso(date)) <= DayNum(day)

AsSet(seq) == {seq[k] : k \in DOMAIN seq}

\* C1: at the evaluation date the aggregation ran with, every trip dated on
\* or before that date (the date itself included) is in the realized
\* collection and no other trip is, every trip dated after it is in the
\* pending collection and no other trip is; realized revenue, miles and
\* deadhead miles are the sums over the realized trips only, and realized
\* plus pending revenue is the sum of all payouts.
C1_RealizedPendingPartition ==
  /\ completedIncomes = SelectSeq(incomes, LAMBDA t : OnOrBefore(t.date, memoNow))
  /\ pendingIncomes = SelectSeq(incomes, LAMBDA t : ~OnOrBefore(t.date, memoNow))
  /\ totalIncome = SumPayout(SelectSeq(incomes, LAMBDA t : OnOrBefore(t.date, memoNow)))
  /\ totalMiles = SumDistance(SelectSeq(incomes, LAMBDA t : OnOrBefore(t.date, memoNow)))
  /\ totalDeadhead = SumDeadhead(SelectSeq(incomes, LAMBDA t : OnOrBefore(t.date, memoNow)))
  /\ pendingRevenue = SumPayout(SelectSeq(incomes, LAMBDA t : ~OnOrBefore(t.date, memoNow)))
  /\ totalIncome + pendingRevenue = SumPayout(incomes)

\* a trip dated exactly on the evaluation date is realized while a load
\* added through the form, with a positive payout, is pending
C1_Witness ==
  /\ \E k \in DOMAIN completedIncomes :
        completedIncomes[k].date = IsoDate(memoNow) /\ completedIncomes[k].totalPayout > 0
  /\ \E k \in DOMAIN pendingIncomes :
        pendingIncomes[k].id = Uuid(1) /\ pendingIncomes[k].totalPayout > 0
  /\ totalIncome > 0

\* the ids fuel-<id> and dh-<id> of the trips that are pending at the given day
GeneratedFromPending(incs, day) ==
  UNION { {<<"fuel-">> \o incs[k].id, <<"dh-">> \o incs[k].id} :
            k \in {j \in DOMAIN incs : ~OnOrBefore(incs[j].date, day)} }

\* a step that only adds trips pending at the (unchanged) evaluation date,
\* together with expenses generated from them
AddsPendingTripsOnly ==
  /\ memoNow' = memoNow
  /\ AsSet(incomes) \subseteq AsSet(incomes')
  /\ AsSet(incomes') # AsSet(incomes)
  /\ \A t \in AsSet(incomes') \ AsSet(incomes) : ~OnOrBefore(t.date, memoNow)
  /\ AsSet(expenses) \subseteq AsSet(expenses')
  /\ \A e \in AsSet(expenses') \ AsSet(expenses) :
        \E t \in AsSet(incomes') \ AsSet(incomes) : e.id \in {<<"fuel-">> \o t.id, <<"dh-">> \o t.id}

\* C2: an expense is left out of the realized expenses exactly when its id
\* is fuel-<id> or dh-<id> of a trip that is pending at the evaluation date;
\* and a step that adds only pending trips with their generated expenses
\* leaves realized revenue, realized expenses and cash profit unchanged.
C2_GeneratedExpenseExclusion ==
  /\ [](\A excluded \in {GeneratedFromPending(incomes, memoNow)} :
          completedExpenses = SelectSeq(expenses, LAMBDA e : e.id \notin excluded))
  /\ [][AddsPendingTripsOnly =>
          /\ totalIncome' = totalIncome
          /\ totalExpenses' = totalExpenses
          /\ ownerOperatorCashProfit' = ownerOperatorCashProfit]_vars

\* an imported trip is pending and its generated fuel expense is stored but
\* not among the realized expenses
C2_Witness ==
  /\ Uuid(1) \in pendingTripIds
  /\ \E k \in DOMAIN expenses : expenses[k].id = <<"fuel-">> \o Uuid(1) /\ expenses[k].amount > 0
  /\ \A k \in DOMAIN completedExpenses : completedExpenses[k].id # <<"fuel-">> \o Uuid(1)

\* C3 (as claimed): every derived collection equals a fresh recomputation
\* from the current collections and the current date.
C3_DerivedTotalsAreFresh ==
  /\ completedIncomes = filterCompleted(incomes, today)
  /\ pendingIncomes = filterPending(incomes, today)
  /\ completedExpenses = filterCompletedExpenses(expenses, computePendingTripIds(incomes, today))

\* the trip after is the trip before with a new distance or a new payout
\* (the inline editor rewrites a trip in place)
EditsDistanceOrPayout(before, after) ==
  /\ after.id = before.id
  /\ after.date = before.date
  /\ after.distance # before.distance \/ after.totalPayout # before.totalPayout

\* C4: every trip with a positive distance has ratePerMile = totalPayout /
\* distance, and an inline edit of distance or payout leaves the edited trip
\* with the rate of its new distance and payout (0 when the distance is not
\* positive).
C4_RateDerivation ==
  /\ [](\A k \in DOMAIN incomes :
          incomes[k].distance > 0 => incomes[k].ratePerMile = Rat(incomes[k].totalPayout, incomes[k].distance))
  /\ [][\A k \in DOMAIN incomes \cap DOMAIN incomes' :
          EditsDistanceOrPayout(incomes[k], incomes'[k]) =>
             incomes'[k].ratePerMile = IF incomes'[k].distance > 0
                                       THEN Rat(incomes'[k].totalPayout, incomes'[k].distance)
                                       ELSE RInt(0)]_vars

\* a built-in trip was edited to a new distance and carries the new rate
C4_Witness ==
  \E k \in DOMAIN incomes :
     /\ incomes[k].id = <<"t2">>
     /\ incomes[k].distance = 150
     /\ incomes[k].ratePerMile = Rat(220000, 150)

\* C5 (as claimed): the take-home need of the break-even computation is the
\* total personal monthly obligation, the 'Debt' amount counted once.
C5_TakeHomeNeedCountsDebtOnce ==
  BreakEven.nd.takeHomeNeed = totalPersonalMonthly

\* C6 (as claimed): with a non-positive marginal profit per mile and a
\* positive shortfall the result is not "<n> more miles needed" with n <= 0,
\* and the miles count is neither 0 nor negative.
C6_UnprofitableIsExplicit ==
  (RSign(BreakEven.pm.marginalProfitPerMile) <= 0 /\ RSign(BreakEven.nd.shortfall) > 0) =>
     /\ ~(BreakEven.nd.bottomLine.kind = "more miles needed" /\ RSign(BreakEven.nd.bottomLine.value) <= 0)
     /\ BreakEven.nd.milesNeeded > 0

\* C7 (as claimed): with a positive marginal profit per mile,
\* afterFixed + milesNeeded * marginalProfitPerMile >= takeHomeNeed; written
\* as milesNeeded >= ceil((takeHomeNeed - afterFixed) / marginalProfitPerMile)
\* when takeHomeNeed exceeds afterFixed (milesNeeded is an integer).
C7_MilesNeededFundsEveryTier ==
  RSign(BreakEven.pm.marginalProfitPerMile) > 0 =>
     \A gap \in {RSub(RInt(BreakEven.nd.takeHomeNeed), BreakEven.mg.afterFixed)} :
        \/ RSign(gap) <= 0 /\ BreakEven.nd.milesNeeded >= 0
        \/ RSign(gap) > 0 /\ BreakEven.nd.milesNeeded >= RCeilQuot(gap, BreakEven.pm.marginalProfitPerMile)

RECURSIVE SumRevenueColumn(_, _)
\* the sum of the revenue column over the rows of the given months
SumRevenueColumn(rows, months) ==
  IF months = {} THEN 0
  ELSE LET m == CHOOSE x \in months : TRUE
       IN rows[m].mRevenue + SumRevenueColumn(rows, months \ {m})

\* C8 (as claimed): the revenue column of the monthly rows sums to the
\* realized revenue total, and every realized trip is counted in exactly one
\* row.
C8_MonthlyRevenueIsRealizedRevenue ==
  /\ SumRevenueColumn(MonthlyRows, DOMAIN MonthlyRows) = totalIncome
  /\ \A k \in DOMAIN completedIncomes :
        Cardinality({m \in DOMAIN MonthlyRows : startsWith(completedIncomes[k].date, m)}) = 1

\* payoff class of a debt: 0 high-interest, 1 overdue, 2 neither (overdue as
\* the debt table classifies it)
PayoffClass(d, now) == IF d.to = CREDIT_CARD THEN 0 ELSE IF isOverdue(d, now) THEN 1 ELSE 2

\* C9 (as claimed): in every payoff order the sort can produce, a debt of a
\* lower class (high-interest, then overdue, then the rest) comes before a
\* debt of a higher class, and debts of the same class are in ascending
\* outstanding amount.
C9_PayoffOrderByClassThenAmount ==
  \A order \in PayoffOrders(debts, today) :
     \A m, n \in DOMAIN order :
        m < n =>
          /\ PayoffClass(order[m], today) <= PayoffClass(order[n], today)
          /\ PayoffClass(order[m], today) = PayoffClass(order[n], today) => order[m].amount <= order[n].amount

\* the due date has passed at the given day: a yyyy-mm-dd due date is an
\* earlier day, a year-only due date is an earlier year
DueDatePassed(dueDate, now) ==
  IF Len(dueDate) = 10 THEN DayNum(ParseIso(dueDate)) < DayNum(now)
  ELSE IF IsDigits(dueDate) THEN DigitsValue(dueDate) < now.y
  ELSE FALSE

\* C10 (as claimed): a debt is treated as overdue exactly when it has a due
\* date and that due date is earlier than the evaluation date.
C10_OverdueIffDueDatePassed ==
  \A k \in DOMAIN debts :
     isOverdue(debts[k], today) <=> (debts[k].dueDate # << >> /\ DueDatePassed(debts[k].dueDate, today))

\* C11: every debt in the collection has an outstanding amount strictly
\* greater than zero; and a Pay of a positive amount p on a debt removes the
\* debt when p is at least its outstanding amount and leaves it with
\* amount - p otherwise.
C11_PayKeepsAmountsPositive ==
  /\ [](\A k \in DOMAIN debts : debts[k].amount > 0)
  /\ [][\A id \in DebtIdInputs, pay \in PayInputs :
          (pay # << >> /\ pay[1] > 0 /\ payDebt(id, pay)) =>
             \A k \in DOMAIN debts :
                debts[k].id = id =>
                   IF pay[1] >= debts[k].amount
                   THEN \A j \in DOMAIN debts' : debts'[j].id # id
                   ELSE \E j \in DOMAIN debts' :
                           debts'[j].id = id /\ debts'[j].amount = debts[k].amount - pay[1]]_vars

\* a debt of 2000.00 was paid 500.00 and stays with 1500.00
C11_Witness ==
  /\ ops = 1
  /\ \E k \in DOMAIN debts : debts[k].id = "d1" /\ debts[k].amount = 150000

\* C12 (as claimed): the per-mile figures, miles needed, trips needed,
\* minimum miles per month and minimum trips per month are all finite
\* numbers.
C12_BreakEvenFiguresFinite ==
  /\ IsFiniteNumber(BreakEven.pm.ratePerMile)
  /\ IsFiniteNumber(BreakEven.pm.fuelPerMile)
  /\ IsFiniteNumber(BreakEven.pm.marginalProfitPerMile)
  /\ BreakEven.nd.milesNeeded >= 0
  /\ tripsNeeded(BreakEven.nd.milesNeeded) >= 0
  /\ IsFiniteNumber(minMilesPerMonth)
  /\ IsFiniteNumber(minTripsPerMonth)

\* the rows the forEach body of handleManifestUpload leaves without creating
\* a trip: fewer than 5 fields, or a missing, zero or non-numeric distance or
\* payout
SkippedRows(lines) ==
  Cardinality({k \in DOMAIN lines : lines[k].kind = "data" /\ ~AcceptedLine(lines[k])})

\* C13 (as claimed): what an import leaves behind tells its caller how many
\* rows were skipped as malformed, so two imports that skip different numbers
\* of rows never have the same outcome.
C13_SkippedRowsAreReported ==
  [][\A lines \in ManifestTexts, utcNow \in {today, NextDay(today)} :
        handleManifestUpload(lines, utcNow) =>
           \A other \in ManifestTexts :
              SkippedRows(other) # SkippedRows(lines) => ~handleManifestUpload(other, utcNow)]_vars

\* the records of new whose id no record of old carries
AddedRecords(old, new) ==
  {new[k] : k \in {j \in DOMAIN new : \A i \in DOMAIN old : old[i].id # new[j].id}}

\* the rows of a manifest text that carry at least 5 fields, a distance and
\* a payout
ValidRows(lines) == {k \in DOMAIN lines : AcceptedLine(lines[k])}

\* the manifest texts by their number of valid rows
TextsByValidRows ==
  [n \in 0..MaxRows |-> {lines \in ManifestTexts : Cardinality(ValidRows(lines)) = n}]

\* C14: an import adds one trip and one Fuel expense per valid row and
\* nothing else: the expense has the id fuel-<trip id>, the trip's date and
\* the national-average fuel cost of the trip's miles rounded to cents; the
\* numbers of trips and expenses added are equal; the records already there
\* are kept; without a valid row both collections stay as they were.
\* (A step is the import of a text when handleManifestUpload of that text
\* makes it; the conditions before it are implied by it, and are there to
\* leave most texts aside at little cost.)
C14_ImportAddsTripWithItsFuelExpense ==
  [][(ops' = ops + 1 /\ debts' = debts /\ personalExpenses' = personalExpenses) =>
      \A n \in {uuidCount' - uuidCount} \cap (0..MaxRows) :
      \E newTrips \in {AddedRecords(incomes, incomes')},
         newExps \in {AddedRecords(expenses, expenses')} :
      \A lines \in TextsByValidRows[n], utcNow \in {today, NextDay(today)} :
        (/\ {t.date : t \in newTrips} = {OrUtcToday(lines[k].date, utcNow) : k \in ValidRows(lines)}
         /\ handleManifestUpload(lines, utcNow)) =>
              /\ Cardinality(newTrips) = n /\ Len(incomes') = Len(incomes) + n
              /\ Cardinality(newExps) = n /\ Len(expenses') = Len(expenses) + n
              /\ AsSet(incomes) \subseteq AsSet(incomes')
              /\ AsSet(expenses) \subseteq AsSet(expenses')
              /\ n = 0 => incomes' = incomes /\ expenses' = expenses
              /\ \A t \in newTrips :
                    /\ \E k \in ValidRows(lines) :
                          t.distance = lines[k].miles[1] /\ t.totalPayout = lines[k].pay[1]
                    /\ Expense(<<"fuel-">> \o t.id, t.date, "Fuel",
                               MathRound(Rat(t.distance * REGIONAL_DIESEL["AVG"], MPG))) \in newExps
              /\ \A e \in newExps : \E t \in newTrips : e.id = <<"fuel-">> \o t.id]_vars

\* an import created a trip dated 2026-03-01 and its fuel expense, on another
\* day than that
C14_Witness ==
  /\ ops = 1
  /\ today # Day(2026, 3, 1)
  /\ \E k \in DOMAIN incomes : incomes[k].id = Uuid(1) /\ incomes[k].date = IsoDate(Day(2026, 3, 1))
  /\ \E k \in DOMAIN expenses : expenses[k].id = <<"fuel-">> \o Uuid(1)

\* the price table of the claims, in cents per gallon: a region's own price
KnownRegion(r) == r \in DOMAIN REGIONAL_DIESEL

\* C15: the fuel cost of a distance between regions of the price table is
\* (distance / MPG) * p, where p is the origin's price when there is no
\* destination and otherwise the mean of the origin's price, the midpoint's
\* price (the midpoint table's entry for origin-destination, the national
\* average when the table has none) and the destination's price; 1000 miles
\* from TX to OH cost (1000 / 7) * (3.40 + 3.45 + 3.60) / 3.
C15_FuelCostAveragesThreePrices ==
  \A call \in {fuelCall[k] : k \in DOMAIN fuelCall} :
     (fuelCost # << >> /\ KnownRegion(call.fuelRegion)) =>
        /\ Falsy(call.destFuelRegion) =>
              fuelCost = Rat(call.distance * REGIONAL_DIESEL[call.fuelRegion], MPG)
        /\ KnownRegion(call.destFuelRegion) =>
              \E key \in {call.fuelRegion \o "-" \o call.destFuelRegion} :
                 \E mid \in {IF key \in DOMAIN ROUTE_MIDPOINTS THEN ROUTE_MIDPOINTS[key] ELSE "AVG"} :
                    fuelCost = Rat(call.distance * (REGIONAL_DIESEL[call.fuelRegion] + REGIONAL_DIESEL[mid]
                                                      + REGIONAL_DIESEL[call.destFuelRegion]), MPG * 3)
        /\ (call.distance = 1000 /\ call.fuelRegion = "TX" /\ call.destFuelRegion = "OH") =>
              fuelCost = Rat(1000 * (340 + 345 + 360), 7 * 3)

\* the cost of 1000 miles from TX to OH has been computed
C15_Witness ==
  /\ fuelCall = << [distance |-> 1000, fuelRegion |-> "TX", destFuelRegion |-> "OH"] >>
  /\ fuelCost # << >>

\* C16: a region the price table lacks is priced at the national average,
\* and its route has the national average as midpoint: with an unknown or
\* missing origin the cost is that of the same distance from 'AVG', with or
\* without a destination, and with an unknown destination the three prices
\* averaged are the origin's, the national average and the national average.
C16_UnknownRegionIsNationalAverage ==
  \A call \in {fuelCall[k] : k \in DOMAIN fuelCall} :
     fuelCost # << >> =>
        /\ ~KnownRegion(call.fuelRegion) =>
              /\ Falsy(call.destFuelRegion) => fuelCost = Rat(call.distance * 385, MPG)
              /\ KnownRegion(call.destFuelRegion) =>
                    fuelCost = Rat(call.distance * (385 + 385 + REGIONAL_DIESEL[call.destFuelRegion]), MPG * 3)
              /\ fuelCost = fuelCostForMiles(call.distance, "AVG", call.destFuelRegion)
        /\ (~Falsy(call.destFuelRegion) /\ ~KnownRegion(call.destFuelRegion)) =>
              \E o \in {IF KnownRegion(call.fuelRegion) THEN REGIONAL_DIESEL[call.fuelRegion] ELSE 385} :
                 fuelCost = Rat(call.distance * (o + 385 + 385), MPG * 3)

\* the cost of 1000 miles from a region the table lacks has been computed
C16_Witness ==
  /\ fuelCall = << [distance |-> 1000, fuelRegion |-> "ZZ", destFuelRegion |-> UNDEFINED] >>
  /\ fuelCost = Rat(385000, 7)

\* C17: in the analysis snapshot cash profit is realized revenue minus
\* realized expenses, and true profit is cash profit minus realized miles
\* times (85000 / 360000 + 0.15) dollars, which is 695 / 18 cents a mile;
\* realized means dated on or before the evaluation date the aggregation
\* ran with. A step that only adds pending trips and the expenses generated
\* from them changes neither realized miles nor cash profit, the two figures
\* the reserves and true profit are computed from.
C17_ProfitFromRealizedFiguresOnly ==
  /\ [](\E revenue \in {SumPayout(SelectSeq(incomes, LAMBDA t : OnOrBefore(t.date, memoNow)))},
           miles \in {SumDistance(SelectSeq(incomes, LAMBDA t : OnOrBefore(t.date, memoNow)))},
           excluded \in {GeneratedFromPending(incomes, memoNow)} :
           \E spent \in {SumAmount(SelectSeq(expenses, LAMBDA e : e.id \notin excluded))} :
              /\ analysis.ownerOperatorCashProfit = revenue - spent
              /\ analysis.totalHiddenCosts = Rat(miles * 695, 18)
              /\ analysis.ownerOperatorTrueProfit = Rat((revenue - spent) * 18 - miles * 695, 18))
  /\ [][AddsPendingTripsOnly =>
          /\ totalMiles' = totalMiles
          /\ ownerOperatorCashProfit' = ownerOperatorCashProfit]_vars

\* realized miles carry reserves while a load added through the form is
\* pending
C17_Witness ==
  /\ Uuid(1) \in pendingTripIds
  /\ totalMiles > 0
  /\ RSign(totalHiddenCosts) > 0
  /\ \E k \in DOMAIN pendingIncomes : pendingIncomes[k].id = Uuid(1) /\ pendingIncomes[k].distance > 0

\* profit * 0.273 for a profit of n / 18 cents, n >= 0, as a whole number of
\* cents and a number of 18000ths, by long multiplication
TaxAtRate(n) ==
  <<(n \div 18000) * 273 + ((n % 18000) * 273) \div 18000, ((n % 18000) * 273) % 18000>>

\* profit, tax and net, the last two as <<whole cents, 18000ths>>, obey:
\* tax = max(0, profit) * 0.273, tax >= 0, net + tax = profit,
\* net <= profit, and with profit <= 0 the tax is 0 and net is profit
TaxLaw(profit, tax, net) ==
  /\ tax = TaxAtRate(Max(0, profit[1]) * (18 \div profit[2]))
  /\ tax[1] >= 0 /\ tax[2] \in 0..17999 /\ net[2] \in 0..17999
  /\ net[1] + tax[1] + (net[2] + tax[2]) \div 18000 = profit[1] \div profit[2]
  /\ ((net[2] + tax[2]) % 18000) * profit[2] = (profit[1] % profit[2]) * 18000
  /\ net[1] < profit[1] \div profit[2]
       \/ (net[1] = profit[1] \div profit[2] /\ net[2] * profit[2] <= (profit[1] % profit[2]) * 18000)
  /\ profit[1] <= 0 =>
       /\ tax = <<0, 0>>
       /\ net[1] = profit[1] \div profit[2]
       /\ net[2] * profit[2] = (profit[1] % profit[2]) * 18000

\* C18: estimatedTax = max(0, trueProfit) * 0.273 and afterTaxProfit =
\* trueProfit - estimatedTax, in the analysis snapshot and in every row of
\* the monthly table: the tax is never negative, the after-tax figure is at
\* most the profit, and with a profit of zero or less the tax is exactly 0
\* and the after-tax figure equals the profit.
C18_TaxOnPositiveProfitOnly ==
  /\ TaxLaw(analysis.ownerOperatorTrueProfit, analysis.estimatedTax, analysis.afterTaxProfit)
  /\ \A month \in ReportMonths(incomes, expenses) :
        \E row \in {MonthlyRow(month, incomes, expenses)} : TaxLaw(row.mProfit, row.mTax, row.mNet)
  /\ estimatedTaxOf(RInt(-50000)) = <<0, 0>>
  /\ afterTaxProfitOf(RInt(-50000)) = <<-50000, 0>>

\* the snapshot shows a tax on a positive true profit while the row of a
\* month with expenses only shows a loss and no tax
C18_Witness ==
  /\ RSign(analysis.ownerOperatorTrueProfit) > 0
  /\ analysis.estimatedTax[1] > 0
  /\ \E month \in ReportMonths(incomes, expenses) :
        \E row \in {MonthlyRow(month, incomes, expenses)} :
           RSign(row.mProfit) < 0 /\ row.mTax = <<0, 0>> /\ row.mNet[1] < 0

C20_PayNeverIncreasesDebt ==
  [][\A id \in DebtIdInputs, pay \in PayInputs :
        payDebt(id, pay) =>
           /\ \A k \in DOMAIN debts : debts[k].id # id => \E j \in DOMAIN debts' : debts'[j] = debts[k]
           /\ \A k \in DOMAIN debts, j \in DOMAIN debts' :
                 debts'[j].id = debts[k].id => debts'[j].amount <= debts[k].amount
           /\ totalDebt' <= totalDebt
           /\ \A k \in DOMAIN debts :
                 (debts[k].id = id /\ \A j \in DOMAIN debts' : debts'[j].id # id) =>
                    (pay # << >> /\ pay[1] >= debts[k].amount)]_vars

\* a / b <= n, for rationals a >= 0 and b > 0 and an integer n: the whole
\* part of a / b is below n, or it is n and nothing remains
QuotientAtMost(a, b, n) ==
  \E g1 \in {Max(1, GCD(a[1], b[1]))}, g2 \in {GCD(a[2], b[2])} :
     \E qr \in {MulDivMod(a[1] \div g1, b[2] \div g2, (b[1] \div g1) * (a[2] \div g2))} :
        qr[1] < n \/ (qr[1] = n /\ qr[2] = 0)

\* C21: with a positive marginal profit per mile, shortfall is
\* max(0, takeHomeNeed - max(0, afterFixed)) and milesNeeded is a
\* non-negative integer, the least n with n * marginalProfitPerMile >=
\* shortfall, and 0 whenever afterFixed >= takeHomeNeed.
C21_MilesNeededIsLeastCover ==
  \A be \in {BreakEven} :
     RSign(be.pm.marginalProfitPerMile) > 0 =>
        /\ \A covered \in {IF RSign(be.mg.afterFixed) <= 0 THEN RInt(0) ELSE be.mg.afterFixed} :
              be.nd.shortfall = (IF RLe(RInt(be.nd.takeHomeNeed), covered) THEN RInt(0)
                                 ELSE RSub(RInt(be.nd.takeHomeNeed), covered))
        /\ be.nd.milesNeeded \in Nat
        /\ QuotientAtMost(be.nd.shortfall, be.pm.marginalProfitPerMile, be.nd.milesNeeded)
        /\ be.nd.milesNeeded > 0 =>
              ~QuotientAtMost(be.nd.shortfall, be.pm.marginalProfitPerMile, be.nd.milesNeeded - 1)
        /\ RLe(RInt(be.nd.takeHomeNeed), be.mg.afterFixed) => be.nd.milesNeeded = 0

\* realized trips leave a positive margin per mile and part of the take-home
\* need uncovered, and the miles needed are a positive number
C21_Witness ==
  /\ totalMiles > 0
  /\ \A be \in {BreakEven} :
        /\ RSign(be.pm.marginalProfitPerMile) > 0
        /\ RSign(be.mg.afterFixed) > 0
        /\ RSign(be.nd.shortfall) > 0
        /\ be.nd.milesNeeded > 0

\* max(0, afterFixed) of the break-even computation be
CoveredAmount(be) == IF RSign(be.mg.afterFixed) <= 0 THEN RInt(0) ELSE be.mg.afterFixed

\* p is min(100, covered / need * 100), for a need other than zero
IsPercentOf(p, covered, need) ==
  \E ratio \in {RMul(covered, Rat(100, need))} :
     p = (IF RLe(RInt(100), ratio) THEN RInt(100) ELSE ratio)

\* C22 as stated: percent-covered is within [0, 100]; it is 100 when the
\* take-home need is zero and min(100, max(0, afterFixed) / takeHomeNeed * 100)
\* for every other need; it is 0 when afterFixed <= 0 and the need is positive.
C22_PercentCoveredAsStated ==
  \A be \in {BreakEven} :
     /\ RLe(RInt(0), be.nd.pctCovered) /\ RLe(be.nd.pctCovered, RInt(100))
     /\ be.nd.takeHomeNeed = 0 => be.nd.pctCovered = RInt(100)
     /\ be.nd.takeHomeNeed # 0 =>
           IsPercentOf(be.nd.pctCovered, CoveredAmount(be), be.nd.takeHomeNeed)
     /\ (RSign(be.mg.afterFixed) <= 0 /\ be.nd.takeHomeNeed > 0) => be.nd.pctCovered = RInt(0)

\* C22: percent-covered is within [0, 100] for every ledger and every list of
\* personal expenses; it is 100 when the take-home need is zero or below zero
\* (monthly amounts below zero are accepted), and
\* min(100, max(0, afterFixed) / takeHomeNeed * 100) when the need is
\* positive; it is 0 when afterFixed <= 0 and the need is positive.
C22_PercentCoveredInRange ==
  \A be \in {BreakEven} :
     /\ RLe(RInt(0), be.nd.pctCovered) /\ RLe(be.nd.pctCovered, RInt(100))
     /\ be.nd.takeHomeNeed <= 0 => be.nd.pctCovered = RInt(100)
     /\ be.nd.takeHomeNeed > 0 =>
           /\ IsPercentOf(be.nd.pctCovered, CoveredAmount(be), be.nd.takeHomeNeed)
           /\ be.nd.pctCovered = RInt(100) <=> RLe(RInt(be.nd.takeHomeNeed), be.mg.afterFixed)
           /\ RMul(be.nd.pctCovered, Rat(be.nd.takeHomeNeed, 100)) =
                 (IF be.nd.goalMet THEN RInt(be.nd.takeHomeNeed) ELSE CoveredAmount(be))
     /\ (RSign(be.mg.afterFixed) <= 0 /\ be.nd.takeHomeNeed > 0) => be.nd.pctCovered = RInt(0)

\* realized trips cover a part of a positive take-home need: the percentage
\* is strictly between 0 and 100
C22_Witness ==
  \A be \in {BreakEven} :
     /\ be.nd.takeHomeNeed > 0
     /\ RSign(be.mg.afterFixed) > 0
     /\ RSign(be.nd.pctCovered) > 0
     /\ ~RLe(RInt(100), be.nd.pctCovered)

\* a monthly amount below zero makes the take-home need negative
C22_NegativeNeed == \A be \in {BreakEven} : be.nd.takeHomeNeed < 0 /\ be.nd.pctCovered = RInt(100)

\* a monthly amount below zero makes the take-home need exactly zero
C22_ZeroNeed == \A be \in {BreakEven} : be.nd.takeHomeNeed = 0 /\ be.nd.pctCovered = RInt(100)

\* -------------------------------------------------------- the payoff plan
RECURSIVE SumMonths(_, _)
SumMonths(plan, k) == IF k = 0 THEN 0 ELSE SumMonths(plan, k - 1) + plan[k].monthsForThis

\* C23: in the payoff plan the months to clear a debt are
\* ceil(amount / 1000), the least whole number of 1000.00 payments covering
\* the amount; the cumulative month count after the k-th debt is the sum of
\* the months of debts 1..k; the completion date is the evaluation time plus
\* cumulative months * 30 days; cumulative months and completion dates do not
\* decrease along the plan.
C23_PayoffPlanAccumulatesMonths ==
  \A sorted \in PayoffOrders(debts, today) :
     \A plan \in {PayoffPlan(sorted, 0)} :
        /\ DOMAIN plan = DOMAIN sorted
        /\ \A k \in DOMAIN plan :
              /\ plan[k].id = sorted[k].id
              /\ plan[k].monthsForThis \in Nat
              /\ plan[k].monthsForThis * PayoffBudget >= sorted[k].amount
              /\ (plan[k].monthsForThis - 1) * PayoffBudget < sorted[k].amount
              /\ plan[k].runningMonth = SumMonths(plan, k)
              /\ paidBy(today, plan[k].runningMonth) - DayNum(today) = 30 * plan[k].runningMonth
              /\ k > 1 =>
                    /\ plan[k].runningMonth >= plan[k - 1].runningMonth
                    /\ paidBy(today, plan[k].runningMonth) >= paidBy(today, plan[k - 1].runningMonth)

\* after a payment, a plan of two debts or more in which a debt that is not a
\* multiple of 1000.00 takes its rounded-up months
C23_Witness ==
  /\ ops > 0
  /\ Len(debts) >= 2
  /\ \E sorted \in PayoffOrders(debts, today) :
        \E k \in DOMAIN sorted :
           /\ k > 1
           /\ sorted[k].amount % PayoffBudget # 0
           /\ PayoffPlan(sorted, 0)[k].runningMonth > PayoffPlan(sorted, 0)[k].monthsForThis

\* ------------------------------------------------ the rows of the report
RECURSIVE SumOverMonths(_, _, _)
\* the sum of a column over the rows of the given months
SumOverMonths(rows, months, column) ==
  IF months = {} THEN 0
  ELSE LET m == CHOOSE x \in months : TRUE
       IN rows[m][column] + SumOverMonths(rows, months \ {m}, column)

\* the records whose year-month (first seven characters of the date) is month
OfYearMonth(recs, month) == SelectSeq(recs, LAMBDA r : substring0(r.date, 7) = month)

\* C24: the monthly report has exactly one row per distinct year-month among
\* trips or expenses and no other row; each trip and each expense is
\* assigned to exactly one row, the row of its year-month; in each row
\* fuel (Fuel + Deadhead) + other is the sum of all expenses of that month.
C24_OneRowPerMonthPartitionsLedger ==
  \A rows \in {MonthlyRows} :
     /\ DOMAIN rows = {substring0(incomes[k].date, 7) : k \in DOMAIN incomes}
                         \cup {substring0(expenses[k].date, 7) : k \in DOMAIN expenses}
     /\ \A m \in DOMAIN rows :
           /\ rows[m].month = m
           /\ rows[m].trips = Len(OfYearMonth(incomes, m))
           /\ rows[m].mRevenue = SumPayout(OfYearMonth(incomes, m))
           /\ rows[m].mFuel + rows[m].mOther = SumAmount(OfYearMonth(expenses, m))
     /\ SumOverMonths(rows, DOMAIN rows, "trips") = Len(incomes)
     /\ SumOverMonths(rows, DOMAIN rows, "mFuel") + SumOverMonths(rows, DOMAIN rows, "mOther")
           = SumAmount(expenses)

\* ------------------------------------------------ the payoff horizons
\* C25: every displayed payoff horizon agrees, for every debt collection and
\* every 'Debt' monthly amount: the months to go of the dashboard, the months
\* and the debt-free date of the debt tracker and of the timeline, and the
\* cumulative months and completion date of the last entry of the payoff plan
\* are the same.
C25_PayoffHorizonsAgree ==
  /\ monthsToGo = payoffMonths
  /\ \A sorted \in PayoffOrders(debts, today) :
        \A plan \in {PayoffPlan(sorted, 0)} :
           plan # << >> =>
              /\ plan[Len(plan)].runningMonth = payoffMonths
              /\ paidBy(today, plan[Len(plan)].runningMonth) = debtFreeDate(today)

\* --------------------------------------------------- the tracked fuel cost
\* C26: analysis.trackedFuelCost is the Fuel-category sum over the realized
\* expenses, the fuel total the break-even panel divides by the realized
\* miles; the fuel expense generated for a pending trip is in neither.
C26_TrackedFuelCostIsRealizedFuel ==
  \A realizedFuel \in {SumCategories(completedExpenses, {"Fuel"})} :
     /\ analysis.trackedFuelCost = realizedFuel
     /\ totalMiles > 0 => BreakEven.pm.fuelPerMile = Rat(realizedFuel, totalMiles)
     /\ realizedFuel =
           SumCategories(SelectSeq(expenses, LAMBDA e : ~(MatchesTripExpense(e.id) /\ Tail(e.id) \in pendingTripIds)),
                         {"Fuel"})

\* ------------------------------------------- deleting and editing a trip
\* the fields of a trip on which two records differ
ChangedFields(a, b) == {f \in DOMAIN a : a[f] # b[f]}

\* the elements of a sequence
Elements(seq) == {seq[k] : k \in DOMAIN seq}

C28_WaterfallDistributesRevenue ==
  (/\ totalIncome >= 0
   /\ \A e \in Elements(completedExpenses) : e.amount >= 0
   /\ \A p \in Elements(personalExpenses) : p.monthlyAmount >= 0)
  => \A b \in {Waterfall} :
        /\ MixedAdd(MixedAdd(b[1].filled, b[2].filled), MixedAdd(b[3].filled, b[4].filled))
              = <<totalIncome, 0>>
        /\ \A k \in 1..4 :
              /\ MixedLe(<<0, 0>>, b[k].filled)
              /\ MixedLe(b[k].filled, b[k].amount)
              /\ b[k].filled # <<0, 0>> => \A j \in 1..(k - 1) : b[j].filled = b[j].amount

\* the realized revenue covers the business expenses and a part of the
\* personal expenses: the second bucket is partly filled, the later ones empty
C28_Witness ==
  /\ \A p \in Elements(personalExpenses) : p.monthlyAmount >= 0
  /\ \A b \in {Waterfall} :
        /\ b[1].filled = b[1].amount
        /\ b[1].filled # <<0, 0>>
        /\ b[2].filled # <<0, 0>>
        /\ b[2].filled # b[2].amount
        /\ b[3].amount # <<0, 0>>
        /\ b[3].filled = <<0, 0>>

\* ------------------------------------------- a route inside one region
\* C29: when a destination region is given and is the origin region, the
\* fuel cost is the single-region cost (distance / MPG) * origin price, the
\* same as with no destination; the three prices are averaged, with a
\* midpoint looked up separately, only when origin and destination differ.
C29_SameRegionIsSingleRegionCost ==
  \A call \in {fuelCall[k] : k \in DOMAIN fuelCall} :
     (/\ fuelCost # << >>
      /\ ~Falsy(call.destFuelRegion)
      /\ call.destFuelRegion = call.fuelRegion) =>
        /\ fuelCost = Rat(call.distance * PriceOf(call.fuelRegion), MPG)
        /\ fuelCost = fuelCostForMiles(call.distance, call.fuelRegion, UNDEFINED)

\* ------------------------------------------------------------- start-up
\* the stored version is absent (or empty) or a number below DATA_VERSION
VersionIsOld(store) ==
  \/ store.rl_version.kind = "absent"
  \/ store.rl_version.value = << >>
  \/ IsDigits(store.rl_version.value) /\ DigitsValue(store.rl_version.value) < DATA_VERSION

\* the stored value of an item that is present and parseable, the default
\* otherwise
StoredOrDefault(item, default) == IF item.kind = "json" THEN item.value ELSE default

\* C30: on start-up, if the stored data version is absent or lower than
\* DATA_VERSION, the four stored collections are discarded, the stored
\* version becomes DATA_VERSION and the four collections start from the
\* built-in defaults whatever was stored; if the stored version is current,
\* each collection starts from its stored value when that is present and
\* parseable and from its default otherwise; after start-up the stored
\* version is never lower than DATA_VERSION.
C30_StartUpResetsOrLoads ==
  /\ VersionIsOld(storage) =>
        [](boot = "render" =>
             /\ incomes = INITIAL_TRIPS /\ expenses = INITIAL_EXPENSES
             /\ personalExpenses = INITIAL_PERSONAL /\ debts = INITIAL_DEBTS
             /\ storage = [rl_version |-> TextItem(Str(DATA_VERSION)), rl_incomes |-> Absent,
                           rl_expenses |-> Absent, rl_personal |-> Absent, rl_debts |-> Absent])
  /\ \A item \in StoredIncomes :
        (~VersionIsOld(storage) /\ storage.rl_incomes = item) =>
           [](boot = "render" => incomes = StoredOrDefault(item, INITIAL_TRIPS))
  /\ \A item \in StoredExpenses :
        (~VersionIsOld(storage) /\ storage.rl_expenses = item) =>
           [](boot = "render" => expenses = StoredOrDefault(item, INITIAL_EXPENSES))
  /\ \A item \in StoredPersonal :
        (~VersionIsOld(storage) /\ storage.rl_personal = item) =>
           [](boot = "render" => personalExpenses = StoredOrDefault(item, INITIAL_PERSONAL))
  /\ \A item \in StoredDebtItems :
        (~VersionIsOld(storage) /\ storage.rl_debts = item) =>
           [](boot = "render" => debts = StoredOrDefault(item, INITIAL_DEBTS))
  /\ [](boot # "rl_incomes" => ~VersionIsOld(storage))

\* with a current version, after the four loads: the debts are the stored
\* ones, and the trips, whose stored text does not parse, the built-in ones
C30_Witness ==
  /\ boot = "render"
  /\ storage.rl_version = TextItem(Str(DATA_VERSION))
  /\ storage.rl_incomes = TextItem(<<123>>)
  /\ incomes = INITIAL_TRIPS
  /\ storage.rl_debts.kind = "json"
  /\ debts = storage.rl_debts.value
  /\ debts # INITIAL_DEBTS

====
